---- MODULE Spec2Model ----
(***************************************************************************)
(* Magpie: blocklist aggregation pipeline (fetch -> dedup -> validate ->   *)
(* write).  The module models                                              *)
(*   - Fetcher.Fetch (internal/fetcher/fetcher.go), both as the loop it    *)
(*     is (a step machine with a cancellable context: SpecFetch) and as    *)
(*     the result it computes from the outcomes of its attempts;           *)
(*   - the three pipeline drivers: runWithLogs and runWithTUI of           *)
(*     cmd/magpie/main.go and main of cmd/aggregator/main.go (Spec).       *)
(***************************************************************************)
EXTENDS Integers, Sequences, FiniteSets, TLC

(***************************************************************************)
(* Bounds of the model.                                                    *)
(***************************************************************************)
\* number of URLs of the active list
NumURLs == 2
\* largest value of the -fetch-workers flag that is explored
MaxFetchWorkers == 2
\* largest value of the -workers flag that is explored
MaxWorkers == 2
\* capacity given to domainChan (the code allocates 10000 slots)
DomainChanCap == 1
\* largest retryAttempts handed to NewFetcher in SpecFetch
MaxRetryAttempts == 3
\* largest retryAttempts of the fetcher in SpecBackoff
MaxBackoffAttempts == 36
\* longest -resolvers list handed to NewValidatorWithResolvers
MaxServers == 3
\* calls of ValidateDNS / ValidateFull that are followed
MaxCalls == 2
\* the clock runs from 0 to MaxClock minutes
MaxClock == 5
\* lines of a source file
MaxLines == 3

\* the normalized domain strings the sources can serve
Domains == {"ads.example.com", "example.com"}

URLs == 1..NumURLs

(***************************************************************************)
(* Fetcher                                                                 *)
(***************************************************************************)
\* retryAttempts the drivers hand to NewFetcher
DriverRetryAttempts == 3

\* NewFetcher: a retryAttempts of 0 selects the default of 3.
NewFetcher(retryAttempts) == IF retryAttempts = 0 THEN 3 ELSE retryAttempts

\* What one fetchAttempt can return: the deduplicated domains of the body,
\* or an error.  The error is classified by what the drivers look at: "conn"
\* when its text contains "dial", "connection" or "network", "ctx" for
\* ctx.Err(), "other" otherwise.
AttemptOk == [ok : {TRUE}, doms : SUBSET Domains, err : {"none"}]
AttemptErr == [ok : {FALSE}, doms : {{}}, err : {"conn", "other"}]
AttemptCtxErr == [ok |-> FALSE, doms |-> {}, err |-> "ctx"]

\* fetchAttempt under a context that is not cancelled while it runs.
fetchAttemptResults == AttemptOk \cup AttemptErr

\* fetchAttempt, by the state of the context: an attempt that begins with the
\* context already cancelled fails in client.Do; one that is overtaken by the
\* cancellation fails, unless the body had been read to its end already.
fetchAttemptUnder(cancelledAtStart, cancelledNow) ==
    IF cancelledAtStart THEN {AttemptCtxErr}
    ELSE IF cancelledNow THEN AttemptOk \cup {AttemptCtxErr}
    ELSE fetchAttemptResults

(***************************************************************************)
(* time.Duration is an int64 of nanoseconds.  A value is kept as its four  *)
(* 16-bit limbs, least significant first, in two's complement, so that the *)
(* arithmetic wraps at 2^64 as Go's does.                                   *)
(***************************************************************************)
LimbBase == 2^16

Zero64 == <<0, 0, 0, 0>>

\* The int64 of a small natural number (below 2^31).
FromNat(n) == <<n % LimbBase, n \div LimbBase, 0, 0>>

IsNeg64(x) == x[4] >= 2^15

\* x + y, wrapping.
Add64(x, y) ==
    LET s1 == x[1] + y[1]
        s2 == x[2] + y[2] + (s1 \div LimbBase)
        s3 == x[3] + y[3] + (s2 \div LimbBase)
        s4 == x[4] + y[4] + (s3 \div LimbBase)
    IN  <<s1 % LimbBase, s2 % LimbBase, s3 % LimbBase, s4 % LimbBase>>

\* -x, wrapping.
Neg64(x) ==
    Add64([i \in 1..4 |-> LimbBase - 1 - x[i]], FromNat(1))

\* x << s: Go shifts the bits out of the word; a count of 64 or more gives 0.
Shl64(x, s) ==
    IF s >= 64 THEN Zero64
    ELSE LET q == s \div 16
             r == s % 16
             limb(i) == IF i - q >= 1 THEN x[i - q] ELSE 0
         IN  [i \in 1..4 |->
                 ((limb(i) * 2^r) % LimbBase) + ((limb(i - 1) * 2^r) \div LimbBase)]

\* The positions of the bits of x that are set.
Bits64(x) == {i \in 0..63 : (x[(i \div 16) + 1] \div 2^(i % 16)) % 2 = 1}

RECURSIVE SumShifted(_, _)
SumShifted(y, bits) ==
    IF bits = {} THEN Zero64
    ELSE LET i == CHOOSE b \in bits : TRUE
         IN  Add64(Shl64(y, i), SumShifted(y, bits \ {i}))

\* x * y, wrapping.
Mul64(x, y) == SumShifted(y, Bits64(x))

\* x < y as signed numbers.
Less64(x, y) ==
    IF IsNeg64(x) # IsNeg64(y) THEN IsNeg64(x)
    ELSE \E i \in 1..4 :
            /\ x[i] < y[i]
            /\ \A j \in (i + 1)..4 : x[j] = y[j]

\* x / 2 for x >= 0.
Shr64(x) ==
    [i \in 1..4 |-> (x[i] \div 2) + (IF i < 4 THEN (x[i + 1] % 2) * 2^15 ELSE 0)]

\* x / 2: Go's division truncates toward zero.
Half64(x) == IF IsNeg64(x) THEN Neg64(Shr64(Neg64(x))) ELSE Shr64(x)

\* time.Second, in nanoseconds
Second == FromNat(10^9)

\* the cap: 30 * time.Second
MaxSleep == Mul64(FromNat(30), Second)

\* backoff := time.Duration(1<<uint(attempt-1)) * time.Second
Backoff(a) == Mul64(Shl64(FromNat(1), a - 1), Second)

\* rand.Int63n(n) panics when n <= 0.
Int63nPanics(n) == IsNeg64(n) \/ n = Zero64

\* rand.Int63n(n) returns a number of [0, n): the least, the greatest and
\* the middle one stand for them.
Int63n(n) == {Zero64, Half64(n), Add64(n, Neg64(FromNat(1)))}

\* if sleepTime > 30*time.Second { sleepTime = 30 * time.Second }
CapSleep(t) == IF Less64(MaxSleep, t) THEN MaxSleep ELSE t

\* The wait after failed attempt a: the panic of rand.Int63n, or the
\* sleepTime of every jitter.
SleepTimes(a) ==
    IF Int63nPanics(Half64(Backoff(a)))
    THEN {[panic |-> TRUE, sleepTime |-> Zero64]}
    ELSE {[panic |-> FALSE, sleepTime |-> CapSleep(Add64(Backoff(a), jitter))] :
             jitter \in Int63n(Half64(Backoff(a)))}

\* Mutant of TimerWins: the wait ignores the context (a plain sleep).
TimerWinsAlways(done, t) == TRUE

\* select { case <-ctx.Done(): ...; case <-time.After(t): ... }: the timer
\* is not ready before t has passed, so with a wait above zero it wins only
\* while the context is not cancelled; a wait of zero or less is ready at
\* once, and of two ready cases either one is taken.
TimerWins(done, t) == ~done \/ ~Less64(Zero64, t)

\* The guard of the backoff: no sleep after the last attempt.
SleepsAfter(a, retryAttempts) == a < retryAttempts

\* Mutant of LoopContinues: the loop stops one attempt early.
LoopContinuesStrict(a, retryAttempts) == a < retryAttempts

\* The loop condition of Fetch.
LoopContinues(a, retryAttempts) == a <= retryAttempts

\* Fetch under a context that is never cancelled, as a function of the
\* outcomes env[1], env[2], ... of its attempts: the first success is
\* returned, and after retryAttempts failures the last error is.
RECURSIVE FetchFrom(_, _, _, _)
FetchFrom(retryAttempts, env, a, lastErr) ==
    IF ~LoopContinues(a, retryAttempts)
    THEN [ok |-> FALSE, doms |-> {}, err |-> lastErr, attempts |-> a - 1]
    ELSE IF env[a].ok
         THEN [ok |-> TRUE, doms |-> env[a].doms, err |-> "none", attempts |-> a]
         ELSE FetchFrom(retryAttempts, env, a + 1, env[a].err)

Fetch(retryAttempts, env) == FetchFrom(retryAttempts, env, 1, "none")

\* Every result a Fetch call of the drivers can have.
FetchResults ==
    { Fetch(NewFetcher(DriverRetryAttempts), env) :
        env \in [1..NewFetcher(DriverRetryAttempts) -> fetchAttemptResults] }

VARIABLES
    \* ---- one Fetch call under a cancellable context (SpecFetch) ----
    retryAttempts,  \* f.retryAttempts
    attempt,        \* the loop variable of Fetch
    fetchPc,        \* "loop", "attempt", "backoff", "returned", "panic"
    ctxDone,        \* the context of the call is cancelled
    attemptLog,     \* history: the attempts begun, with their outcome
    fetchRet,       \* what Fetch returned
    sleepTime,      \* sleepTime of the backoff under way
    \* ---- the pipeline drivers (Spec) ----
    driver,         \* "logs" (runWithLogs), "tui" (runWithTUI), "aggregator"
    fetchWorkers,   \* the -fetch-workers flag
    tracker,        \* tracker != nil (health tracking enabled)
    urls,           \* the active URL list
    runCtxDone,     \* the ctx the driver hands to its orchestrators is cancelled
    queuedAtCancel, \* history: what the channels held when it was cancelled
    srcFile,        \* the source file: whether it opens, its lines, whether
                    \*   reading it ends with an error
    startPc,        \* the driver before the fetch: "probe", "load", "loaded",
                    \*   "ready", "fatal"
    probed,         \* history: a connectivity probe was made
    allURLs,        \* allURLs, what loadURLs returned
    loadErr,        \* the error of loadURLs ("none": nil)
    health,         \* tracker.Stats: per URL, the record if there is one
    filteredURLs,   \* filteredURLs
    filterCalls,    \* history: the calls of tracker.FilterURLs
    mainPc,         \* where the driver's main goroutine is
    stage,          \* the stage of the pipeline
    failure,        \* the fatal condition the run ended with
    feedIdx,        \* feeder goroutine: index of the next URL to send
    urlChan,        \* urlChan, and whether it is closed
    urlChanClosed,
    wPc,            \* fetch worker: "off", "recv", "count", "progress", "send",
                    \*   "exit"
    wUrl,           \* fetch worker: the URL it is counting (0: none)
    wDoms,          \* fetch worker: the domains it still has to send
    wTmp,           \* fetch worker: the value of URLsFetched it loaded, while
                    \*   it is counting
    domainChan,     \* domainChan, and whether it is closed
    domainChanClosed,
    errorChan,      \* errorChan: the number of messages sent, per URL
    allDomains,     \* the global domain set
    duplicates,     \* aggregationStats.DuplicatesFound / duplicates
    collectorPc,    \* collector goroutine: "off", "run", "signal", "done"
    URLsFetched,    \* aggregationStats.URLsFetched / fetchedCount
    Errors,         \* aggregationStats.Errors / errors
    hist,           \* history, per URL: dequeues, how its fetch ended
                    \*   ("none": not yet, "ok", "err"), tracker notifications
    fetchedUnion,   \* history: union of the sets the successful fetches returned
    fetchedTotal,   \* history: sum of the sizes of those sets
    enableDNS,      \* the -dns, -http and -workers flags, from where the
    enableHTTP,     \*   driver reads them
    workers,
    validateChan,   \* domainChan of validateDomains, and whether it is closed
    validateChanClosed,
    vPending,       \* the domains main has still to feed
    vPc,            \* validation worker: "off", "recv", "exit"
    localValid,     \* validation worker: localValid
    localInvalidCount, \* validation worker: localInvalidCount
    validCount,     \* the atomic counters validCount and invalidCount
    invalidCount,
    validDomains,   \* validDomains
    DomainsValid,   \* aggregationStats.DomainsValid and .DomainsInvalid
    DomainsInvalid,
    outFile,        \* the output file: created by this run, its lines
    completion,     \* printResults / CompletionMsg happened
    statsSaved,     \* tracker.Save() was called
    \* ---- the validator (SpecValidator) ----
    resolvers,      \* len(v.resolvers)
    useCache,       \* v.useCache
    nextResolver,   \* v.nextResolver, a uint32 kept as <<low, high>> 16-bit limbs
    cache,          \* v.cache: per domain, the entry if there is one
    now,            \* the clock, in minutes
    call,           \* per caller: the ValidateDNS / ValidateFull call it is in
    picks,          \* history: the indices getResolver selected, in order
    callsLeft,      \* calls that may still begin
    cacheMu,        \* v.cacheMu: the callers that hold it for reading, the one
                    \*   that holds it for writing
    \* ---- the domain parser (SpecParse) ----
    body,           \* the lines of a response body, as the scanner delivers them
    lineNum,        \* lineNum of fetchAttempt: the lines scanned
    domainMap,      \* domainMap of fetchAttempt: the per-URL set
    arg,            \* the string a direct call is made with
    parseRet,       \* what ParseDomain(arg) returned, if it was called
    validRet,       \* what IsValidDomain(arg) returned, if it was called
    \* ---- one fetchAttempt (SpecAttempt) ----
    doErr,          \* client.Do fails
    respStatus,     \* resp.StatusCode
    failAt,         \* the line at which reading the body fails, 0 for none
    attemptPc,      \* "off", "do", "status", "scan", "returned"
    attemptRet,     \* what fetchAttempt returned
    \* ---- history of the validation workers ----
    validatedBy,    \* per domain: the validator method a worker called for it
    httpIssued,     \* history: a worker's call went as far as a HTTP request
    \* ---- the lookups of one ValidateDNS / ValidateHTTP call (SpecLookups) ----
    lkOp,           \* "dns" or "http": the function that is called
    lkPc,           \* per lookup goroutine: "off", "run", "send", "done"
    lkAns,          \* per lookup goroutine: the valid field of its result
    lkSent,         \* history: per lookup goroutine, the results it has sent
    resultsChan,    \* the results channel
    lkCtxDone,      \* lookupCtx / httpCtx is done (cancel or timeout)
    callerPc,       \* the caller: "off", "wait", "returned"
    callerI,        \* the caller's loop variable i
    callerRet,      \* what the caller returned
    \* ---- the health tracker over calls and runs (SpecTracker, SpecRuns) ----
    sinceReset,     \* history: per URL, the failures recorded since its count
                    \*   was last set to zero
    lastCall,       \* history: the last call made on the tracker
    statsFile,      \* stats.json: the records the last Save wrote
    runPc,          \* a run: "off", "start", "fetch", "end", "exited"
    pending,        \* a run: the active URLs whose fetch has not returned
    runLog          \* history of the runs: their number,
                    \*   whether domains were found and Save was called in the
                    \*   current one, the URLs blacklisted so far, for the URL
                    \*   handled last the Fetch calls and the GETs it got

fetchVars == <<retryAttempts, attempt, fetchPc, ctxDone, attemptLog, fetchRet,
               sleepTime>>

startupVars == <<srcFile, startPc, probed, allURLs, loadErr, health,
                 filteredURLs, filterCalls>>

attemptVars == <<doErr, respStatus, failAt, attemptPc, attemptRet>>

parseVars == <<body, lineNum, domainMap, arg, parseRet, validRet, attemptVars>>

modeVars == <<validatedBy, httpIssued>>

lookupVars == <<lkOp, lkPc, lkAns, lkSent, resultsChan, lkCtxDone, callerPc, callerI,
                callerRet>>

trackerVars == <<sinceReset, lastCall, statsFile, runPc, pending, runLog>>

lateVars == <<lookupVars, trackerVars>>

configVars == <<driver, fetchWorkers, tracker, urls, runCtxDone, queuedAtCancel,
                startupVars, parseVars, modeVars, lateVars>>

fetchPhaseVars == <<feedIdx, urlChan, urlChanClosed, wPc, wUrl, wDoms, wTmp,
                    domainChan, domainChanClosed, errorChan, allDomains,
                    duplicates, collectorPc, URLsFetched, Errors, hist,
                    fetchedUnion, fetchedTotal>>

validationVars == <<enableDNS, enableHTTP, workers, validateChan,
                    validateChanClosed, vPending, vPc, localValid,
                    localInvalidCount, validCount, invalidCount, validDomains,
                    DomainsValid, DomainsInvalid>>

outputVars == <<outFile, completion, statsSaved>>

pipeVars == <<configVars, mainPc, stage, failure, fetchPhaseVars,
              validationVars, outputVars>>

validatorVars == <<resolvers, useCache, nextResolver, cache, now, call, picks,
                   callsLeft, cacheMu>>

vars == <<fetchVars, pipeVars, validatorVars>>

NoRet == [done |-> FALSE, ok |-> FALSE, doms |-> {}, err |-> "none"]

FetchWorkerIds == 1..MaxFetchWorkers

WorkerIds == 1..MaxWorkers

\* errorChan and the error list hold one message per failed URL; they are
\* kept as the number of messages per URL, the order left out.
NoErrors == [u \in URLs |-> 0]

NoHist == [dequeued |-> 0, res |-> "none", recS |-> 0, recF |-> 0]

NothingQueued == [urls |-> {}, domains |-> {}]

NoFile == [openErr |-> FALSE, lines |-> <<>>, scanErr |-> FALSE]

\* A URL the tracker has no record of.
NoStats == [known |-> FALSE, Blacklisted |-> FALSE, FailureCount |-> 0]

\* No call of ParseDomain or IsValidDomain made or to be made.
NoParse == [called |-> FALSE, ret |-> <<>>]

NoVerdict == [called |-> FALSE, ret |-> FALSE]

LookupIds == 1..3

NoCaller == [done |-> FALSE, valid |-> FALSE]

\* No ValidateDNS / ValidateHTTP call with its lookups is modelled.
LookupIdle ==
    /\ lkOp = "none"
    /\ lkPc = [g \in LookupIds |-> "off"]
    /\ lkAns = [g \in LookupIds |-> FALSE]
    /\ lkSent = [g \in LookupIds |-> 0]
    /\ resultsChan = <<>>
    /\ lkCtxDone = FALSE
    /\ callerPc = "off"
    /\ callerI = 0
    /\ callerRet = NoCaller

NoTrackerCall == [op |-> "none", url |-> 0, was |-> NoStats]

NoneSince == [fails |-> 0, succeeded |-> FALSE]

NoRunLog ==
    [runs |-> 0, saved |-> FALSE, found |-> FALSE, black |-> {},
     url |-> 0, calls |-> 0, gets |-> 0]

\* No tracker call and no run over the tracker is modelled.
TrackerIdle ==
    /\ sinceReset = [u \in URLs |-> NoneSince]
    /\ lastCall = NoTrackerCall
    /\ statsFile = [u \in URLs |-> NoStats]
    /\ runPc = "off"
    /\ pending = {}
    /\ runLog = NoRunLog

LateIdle == LookupIdle /\ TrackerIdle

\* No fetchAttempt is running.
AttemptIdle ==
    /\ doErr = FALSE
    /\ respStatus = 0
    /\ failAt = 0
    /\ attemptPc = "off"
    /\ attemptRet = NoRet

\* No response body is being scanned.
ParseIdle ==
    /\ body = <<>>
    /\ lineNum = 0
    /\ domainMap = {}
    /\ arg = <<>>
    /\ parseRet = NoParse
    /\ validRet = NoVerdict
    /\ AttemptIdle
    /\ LateIdle

\* The driver is past its start: the URLs are loaded and filtered.
StartupIdle ==
    /\ ParseIdle
    /\ srcFile = NoFile
    /\ startPc = "ready"
    /\ probed = FALSE
    /\ allURLs = <<>>
    /\ loadErr = "none"
    /\ health = [u \in URLs |-> NoStats]
    /\ filteredURLs = <<>>
    /\ filterCalls = 0

\* The pipeline before the driver has started its goroutines.
PipelineIdle ==
    /\ runCtxDone = FALSE
    /\ queuedAtCancel = NothingQueued
    /\ mainPc = "start"
    /\ stage = "Idle"
    /\ failure = "none"
    /\ feedIdx = 0
    /\ urlChan = <<>>
    /\ urlChanClosed = FALSE
    /\ wPc = [w \in FetchWorkerIds |-> "off"]
    /\ wUrl = [w \in FetchWorkerIds |-> 0]
    /\ wDoms = [w \in FetchWorkerIds |-> {}]
    /\ wTmp = [w \in FetchWorkerIds |-> 0]
    /\ domainChan = <<>>
    /\ domainChanClosed = FALSE
    /\ errorChan = NoErrors
    /\ allDomains = {}
    /\ duplicates = 0
    /\ collectorPc = "off"
    /\ URLsFetched = 0
    /\ Errors = NoErrors
    /\ hist = [u \in URLs |-> NoHist]
    /\ fetchedUnion = {}
    /\ fetchedTotal = 0
    /\ enableDNS = FALSE
    /\ enableHTTP = FALSE
    /\ workers = 0
    /\ validateChan = <<>>
    /\ validateChanClosed = FALSE
    /\ vPending = {}
    /\ vPc = [w \in WorkerIds |-> "off"]
    /\ localValid = [w \in WorkerIds |-> <<>>]
    /\ localInvalidCount = [w \in WorkerIds |-> 0]
    /\ validCount = 0
    /\ invalidCount = 0
    /\ validDomains = <<>>
    /\ DomainsValid = 0
    /\ DomainsInvalid = 0
    /\ outFile = [created |-> FALSE, lines |-> <<>>]
    /\ completion = FALSE
    /\ statsSaved = FALSE
    /\ validatedBy = [d \in Domains |-> "nothing"]
    /\ httpIssued = FALSE

\* The domains handed to the validator.
ValDomains == {"ads.example.com", "example.com"}

\* The goroutines that call the validator at the same time.
CallerIds == {"w1", "w2"}

NoEntry == [present |-> FALSE, valid |-> FALSE, timestamp |-> 0]

\* Mutant of Stores: only a valid outcome is stored.
StoresValidOnly(old, valid, t) ==
    IF valid THEN [present |-> TRUE, valid |-> valid, timestamp |-> t] ELSE old

\* v.cache[domain] = &dnsResult{valid: valid, timestamp: time.Now()}: the
\* entry of the domain after the assignment, old being the one before.
Stores(old, valid, t) == [present |-> TRUE, valid |-> valid, timestamp |-> t]

\* A sync.RWMutex nobody holds.
Unlocked == [readers |-> {}, writer |-> "none"]

NoCall == [pc |-> "idle", domain |-> "", op |-> "", hit |-> FALSE,
           dnsSeen |-> <<>>, dnsValid |-> FALSE, httpSeen |-> <<>>,
           result |-> FALSE]

\* The validator is not in use.
ValidatorIdle ==
    /\ resolvers = 1
    /\ useCache = FALSE
    /\ nextResolver = <<0, 0>>
    /\ cache = [d \in ValDomains |-> NoEntry]
    /\ now = 0
    /\ call = [c \in CallerIds |-> NoCall]
    /\ picks = <<>>
    /\ callsLeft = 0
    /\ cacheMu = Unlocked

\* No Fetch call of SpecFetch is under way.
FetchIdle ==
    /\ retryAttempts = NewFetcher(DriverRetryAttempts)
    /\ attempt = 1
    /\ fetchPc = "returned"
    /\ ctxDone = FALSE
    /\ attemptLog = <<>>
    /\ fetchRet = NoRet
    /\ sleepTime = Zero64

InitFetch ==
    /\ driver = "logs" /\ fetchWorkers = 1 /\ tracker = FALSE /\ urls = <<>>
    /\ PipelineIdle
    /\ StartupIdle
    /\ ValidatorIdle
    /\ retryAttempts \in {NewFetcher(r) : r \in 0..MaxRetryAttempts}
    /\ attempt = 1
    /\ fetchPc = "loop"
    /\ ctxDone = FALSE
    /\ attemptLog = <<>>
    /\ fetchRet = NoRet
    /\ sleepTime = Zero64

\* for attempt := 1; attempt <= f.retryAttempts: fetchAttempt begins
FetchBeginAttempt ==
    /\ fetchPc = "loop"
    /\ LoopContinues(attempt, retryAttempts)
    /\ fetchPc' = "attempt"
    /\ attemptLog' = Append(attemptLog,
                            [afterCancel |-> ctxDone, res |-> "running",
                             doms |-> {}])
    /\ UNCHANGED <<retryAttempts, attempt, ctxDone, fetchRet, sleepTime>>
    /\ UNCHANGED <<pipeVars, validatorVars>>

\* the loop is over: return nil, "failed after N attempts: lastErr"
FetchExhausted ==
    /\ fetchPc = "loop"
    /\ ~LoopContinues(attempt, retryAttempts)
    /\ fetchPc' = "returned"
    /\ fetchRet' = [done |-> TRUE, ok |-> FALSE, doms |-> {}, err |-> "failed"]
    /\ UNCHANGED <<retryAttempts, attempt, ctxDone, attemptLog, sleepTime>>
    /\ UNCHANGED <<pipeVars, validatorVars>>

\* fetchAttempt returns; on success Fetch returns its domains, on failure
\* it goes to the backoff, or straight on after the last attempt.
FetchAttemptReturns ==
    /\ fetchPc = "attempt"
    /\ \E r \in fetchAttemptUnder(attemptLog[Len(attemptLog)].afterCancel, ctxDone) :
          /\ attemptLog' = [attemptLog EXCEPT
                                ![Len(attemptLog)].res = IF r.ok THEN "ok" ELSE r.err,
                                ![Len(attemptLog)].doms = r.doms]
          /\ IF r.ok
             THEN /\ fetchPc' = "returned"
                  /\ fetchRet' = [done |-> TRUE, ok |-> TRUE, doms |-> r.doms,
                                  err |-> "none"]
                  /\ UNCHANGED <<attempt, sleepTime>>
             ELSE /\ fetchRet' = fetchRet
                  /\ IF SleepsAfter(attempt, retryAttempts)
                     THEN /\ attempt' = attempt
                          /\ \E w \in SleepTimes(attempt) :
                                /\ fetchPc' = IF w.panic THEN "panic" ELSE "backoff"
                                /\ sleepTime' = w.sleepTime
                     ELSE /\ fetchPc' = "loop"
                          /\ attempt' = attempt + 1
                          /\ sleepTime' = sleepTime
    /\ UNCHANGED <<retryAttempts, ctxDone>>
    /\ UNCHANGED <<pipeVars, validatorVars>>

\* select: case <-time.After(sleepTime): on to the next attempt.
FetchBackoffElapsed ==
    /\ fetchPc = "backoff"
    /\ TimerWins(ctxDone, sleepTime)
    /\ fetchPc' = "loop"
    /\ attempt' = attempt + 1
    /\ UNCHANGED <<retryAttempts, ctxDone, attemptLog, fetchRet, sleepTime>>
    /\ UNCHANGED <<pipeVars, validatorVars>>

\* select: case <-ctx.Done(): return nil, ctx.Err()
FetchBackoffCancelled ==
    /\ fetchPc = "backoff"
    /\ ctxDone
    /\ fetchPc' = "returned"
    /\ fetchRet' = [done |-> TRUE, ok |-> FALSE, doms |-> {}, err |-> "ctx"]
    /\ UNCHANGED <<retryAttempts, attempt, ctxDone, attemptLog, sleepTime>>
    /\ UNCHANGED <<pipeVars, validatorVars>>

\* The caller cancels the context, at any moment before Fetch returned.
CancelContext ==
    /\ fetchPc \notin {"returned", "panic"}
    /\ ~ctxDone
    /\ ctxDone' = TRUE
    /\ UNCHANGED <<retryAttempts, attempt, fetchPc, attemptLog, fetchRet, sleepTime>>
    /\ UNCHANGED <<pipeVars, validatorVars>>

NextFetch ==
    \/ FetchBeginAttempt
    \/ FetchExhausted
    \/ FetchAttemptReturns
    \/ FetchBackoffElapsed
    \/ FetchBackoffCancelled
    \/ CancelContext

SpecFetch == InitFetch /\ [][NextFetch]_vars

(***************************************************************************)
(* Fetch against an endpoint whose every attempt fails, under a context    *)
(* that is never cancelled: the waits between the attempts (SpecBackoff).  *)
(***************************************************************************)
InitBackoff ==
    /\ driver = "logs" /\ fetchWorkers = 1 /\ tracker = FALSE /\ urls = <<>>
    /\ PipelineIdle
    /\ StartupIdle
    /\ ValidatorIdle
    /\ retryAttempts \in 1..MaxBackoffAttempts
    /\ attempt = 1
    /\ fetchPc = "loop"
    /\ ctxDone = FALSE
    /\ attemptLog = <<>>
    /\ fetchRet = NoRet
    /\ sleepTime = Zero64

\* One turn of the loop: fetchAttempt fails; unless it was the last attempt
\* the wait is computed, which may panic.
FetchAttemptFails ==
    /\ fetchPc = "loop"
    /\ LoopContinues(attempt, retryAttempts)
    /\ IF SleepsAfter(attempt, retryAttempts)
       THEN /\ attempt' = attempt
            /\ \E w \in SleepTimes(attempt) :
                  /\ fetchPc' = IF w.panic THEN "panic" ELSE "backoff"
                  /\ sleepTime' = w.sleepTime
       ELSE /\ fetchPc' = "loop"
            /\ attempt' = attempt + 1
            /\ sleepTime' = sleepTime
    /\ UNCHANGED <<retryAttempts, ctxDone, attemptLog, fetchRet>>
    /\ UNCHANGED <<pipeVars, validatorVars>>

NextBackoff ==
    \/ FetchAttemptFails
    \/ FetchBackoffElapsed
    \/ FetchExhausted

SpecBackoff == InitBackoff /\ [][NextBackoff]_vars

(***************************************************************************)
(* Fetch orchestrator: the fetch phase of runWithLogs, of                  *)
(* fetchDomainsWithTUI and of the aggregator's main.                       *)
(***************************************************************************)
Init ==
    /\ FetchIdle
    /\ driver \in {"logs", "tui", "aggregator"}
    /\ fetchWorkers \in 1..MaxFetchWorkers
    /\ tracker \in (IF driver = "aggregator" THEN {FALSE} ELSE BOOLEAN)
    /\ urls \in {[i \in 1..n |-> i] : n \in 1..NumURLs}
    /\ PipelineIdle
    /\ StartupIdle
    /\ ValidatorIdle

\* Mutant of FetchersDone: the wait ends with the first worker that ends.
FetchersDoneAny(pcs, n) == \E w \in 1..n : pcs[w] = "exit"

\* fetchWg.Wait(): every started worker ran its deferred fetchWg.Done().
FetchersDone(pcs, n) == \A w \in 1..n : pcs[w] = "exit"

\* Mutant of CollectDomain: the counter is incremented on the wrong branch.
CollectDomainMiscount(set, dups, d) ==
    IF d \in set THEN [set |-> set, dups |-> dups]
    ELSE [set |-> set \cup {d}, dups |-> dups + 1]

\* The collector's loop body: a domain already present increments the
\* duplicate counter, otherwise it is inserted.
CollectDomain(set, dups, d) ==
    IF d \in set THEN [set |-> set, dups |-> dups + 1]
    ELSE [set |-> set \cup {d}, dups |-> dups]

\* strings.Contains(err.Error(), "dial" / "connection" / "network")
IsConnectionError(err) == err = "conn"

\* Only runWithLogs probes the connection and fetches the URL again.
ReconnectsOn(drv, err) == drv = "logs" /\ IsConnectionError(err)

\* URLsFetched++ is a plain load and store in runWithLogs and the aggregator;
\* the TUI driver counts with atomic.Int32.
CountsAtomically(drv) == drv = "tui"

\* Mutant of FailureNotifications: the connection-lost path forgets the
\* tracker.
FailureNotificationsNotLost(path, trk) == IF trk /\ path # "lost" THEN 1 ELSE 0

\* The tracker.RecordFailure calls a worker makes for a URL that failed on
\* the given path: "lost" (connection error, connection not restored),
\* "reconnected" (failed again after the reconnection), "plain" (any other
\* error).  Each path holds one call, under if tracker != nil.
FailureNotifications(path, trk) == IF trk THEN 1 ELSE 0

\* A worker's handling of one URL, as a function of what the network does:
\* the result of the first Fetch, whether CheckConnectionWithRetry finds the
\* connection restored, the result of the second Fetch.  path names the way
\* taken: "fetched", "refetched" (fetched after a reconnection), "plain",
\* "lost", "reconnected".
FetchURL(drv, first, restored, second) ==
    IF first.ok
    THEN [ok |-> TRUE, doms |-> first.doms, path |-> "fetched", calls |-> 1,
          attempts |-> first.attempts]
    ELSE IF ReconnectsOn(drv, first.err)
         THEN IF ~restored
              THEN [ok |-> FALSE, doms |-> {}, path |-> "lost", calls |-> 1,
                    attempts |-> first.attempts]
              ELSE IF second.ok
                   THEN [ok |-> TRUE, doms |-> second.doms, path |-> "refetched",
                         calls |-> 2,
                         attempts |-> first.attempts + second.attempts]
                   ELSE [ok |-> FALSE, doms |-> {}, path |-> "reconnected",
                         calls |-> 2,
                         attempts |-> first.attempts + second.attempts]
         ELSE [ok |-> FALSE, doms |-> {}, path |-> "plain", calls |-> 1,
               attempts |-> first.attempts]

FetchURLOutcomes(drv) ==
    { FetchURL(drv, first, restored, second) :
        first \in FetchResults, restored \in BOOLEAN, second \in FetchResults }

\* Fetch under a context cancelled before the call: the one attempt it makes
\* fails with the context's error and it returns that error.
CancelledFetch == [ok |-> FALSE, doms |-> {}, err |-> "ctx", attempts |-> 1]

\* The handling of one URL under the driver's context, cancelled or not.
FetchURLOutcomesUnder(drv, done) ==
    IF done
    THEN {FetchURL(drv, CancelledFetch, FALSE, CancelledFetch)}
    ELSE FetchURLOutcomes(drv)

\* if tracker != nil { tracker.RecordSuccess(url) }
NotifiesSuccess(trk) == trk

\* Mutant of AfterFailurePc: return instead of continue.
AfterFailureReturn == "exit"

\* Where a worker goes after a failed URL: continue, the next URL.
AfterFailurePc == "recv"

\* Where a worker goes after counting a fetched URL.
SendPc(doms) == IF doms = {} THEN "recv" ELSE "send"

Bump(n, yes) == IF yes THEN n + 1 ELSE n

\* The driver makes the channels and starts the workers, the feeder and the
\* collector.
MainStartFetch ==
    /\ mainPc = "start"
    /\ startPc = "ready"
    /\ mainPc' = "waitFetch"
    /\ stage' = "Fetching"
    /\ wPc' = [w \in FetchWorkerIds |-> IF w <= fetchWorkers THEN "recv" ELSE "off"]
    /\ feedIdx' = 1
    /\ collectorPc' = "run"
    /\ UNCHANGED <<configVars, failure, urlChan, urlChanClosed, wUrl, wDoms, wTmp,
                   domainChan, domainChanClosed, errorChan, allDomains,
                   duplicates, URLsFetched, Errors, hist,
                   fetchedUnion, fetchedTotal>>
    /\ UNCHANGED <<validationVars, outputVars, fetchVars, validatorVars>>

\* Feeder: urlChan <- url (the channel holds len(urls), it never blocks)
FeedURL ==
    /\ feedIdx \in 1..Len(urls)
    /\ urlChan' = Append(urlChan, urls[feedIdx])
    /\ feedIdx' = feedIdx + 1
    /\ UNCHANGED <<configVars, mainPc, stage, failure, urlChanClosed, wPc, wUrl,
                   wDoms, wTmp, domainChan, domainChanClosed, errorChan,
                   allDomains, duplicates, collectorPc, URLsFetched, Errors, hist,
                   fetchedUnion, fetchedTotal>>
    /\ UNCHANGED <<validationVars, outputVars, fetchVars, validatorVars>>

\* Feeder: close(urlChan)
CloseURLChan ==
    /\ feedIdx = Len(urls) + 1
    /\ ~urlChanClosed
    /\ urlChanClosed' = TRUE
    /\ UNCHANGED <<configVars, mainPc, stage, failure, feedIdx, urlChan, wPc, wUrl,
                   wDoms, wTmp, domainChan, domainChanClosed, errorChan,
                   allDomains, duplicates, collectorPc, URLsFetched, Errors, hist,
                   fetchedUnion, fetchedTotal>>
    /\ UNCHANGED <<validationVars, outputVars, fetchVars, validatorVars>>

\* Worker: urlChan is closed and empty, the range loop ends.
WorkerExit(w) ==
    /\ wPc[w] = "recv"
    /\ urlChan = <<>>
    /\ urlChanClosed
    /\ wPc' = [wPc EXCEPT ![w] = "exit"]
    /\ UNCHANGED <<configVars, mainPc, stage, failure, feedIdx, urlChan,
                   urlChanClosed, wUrl, wDoms, wTmp, domainChan, domainChanClosed,
                   errorChan, allDomains, duplicates, collectorPc, URLsFetched,
                   Errors, hist,
                   fetchedUnion, fetchedTotal>>
    /\ UNCHANGED <<validationVars, outputVars, fetchVars, validatorVars>>

\* Worker: for url := range urlChan { domains, err := f.Fetch(ctx, url) ... }
\* up to the first access to shared state after the fetch.  On success
\* runWithLogs and the aggregator load URLsFetched here and store it in
\* WorkerCount, the TUI worker notifies the tracker and adds to fetchedCount
\* atomically; on failure: errorChan <- errMsg, tracker.RecordFailure, continue.
WorkerFetch(w) ==
    /\ wPc[w] = "recv"
    /\ urlChan # <<>>
    /\ urlChan' = Tail(urlChan)
    /\ \E o \in FetchURLOutcomesUnder(driver, runCtxDone) :
          LET u == Head(urlChan)
              h == [hist[u] EXCEPT !.dequeued = @ + 1,
                                   !.res = IF o.ok THEN "ok" ELSE "err"]
          IN
          /\ fetchedUnion' = fetchedUnion \cup o.doms
          /\ fetchedTotal' = fetchedTotal + Cardinality(o.doms)
          /\ IF o.ok
             THEN /\ wDoms' = [wDoms EXCEPT ![w] = o.doms]
                  /\ errorChan' = errorChan
                  /\ IF CountsAtomically(driver)
                     THEN /\ URLsFetched' = URLsFetched + 1
                          /\ UNCHANGED <<wTmp, wUrl>>
                          /\ wPc' = [wPc EXCEPT ![w] = "progress"]
                          /\ hist' = [hist EXCEPT ![u] =
                                        [h EXCEPT !.recS =
                                            Bump(@, NotifiesSuccess(tracker))]]
                     ELSE /\ URLsFetched' = URLsFetched
                          /\ wTmp' = [wTmp EXCEPT ![w] = URLsFetched]
                          /\ wUrl' = [wUrl EXCEPT ![w] = u]
                          /\ wPc' = [wPc EXCEPT ![w] = "count"]
                          /\ hist' = [hist EXCEPT ![u] = h]
             ELSE /\ errorChan' = [errorChan EXCEPT ![u] = @ + 1]
                  /\ hist' = [hist EXCEPT ![u] =
                                [h EXCEPT !.recF =
                                    @ + FailureNotifications(o.path, tracker)]]
                  /\ wPc' = [wPc EXCEPT ![w] = AfterFailurePc]
                  /\ UNCHANGED <<wDoms, wTmp, wUrl, URLsFetched>>
    /\ UNCHANGED <<configVars, mainPc, stage, failure, feedIdx,
                   urlChanClosed, domainChan, domainChanClosed,
                   allDomains, duplicates, collectorPc, Errors>>
    /\ UNCHANGED <<validationVars, outputVars, fetchVars, validatorVars>>

\* mu.Lock() around the collector's accesses to allDomains and duplicates:
\* fetchDomainsWithTUI has it; in runWithLogs and the aggregator the collector
\* is the only goroutine that touches them before it is done.
CollectorHoldsMu(drv) == drv = "tui"

\* The TUI worker evaluates len(allDomains) for its progress message outside
\* mu.Lock().
ProgressHoldsMu == FALSE

\* Worker (fetchDomainsWithTUI): program.Send(ui.FetchProgressMsg{...,
\* TotalDomains: len(allDomains) + len(domains), ...}).  The length is read
\* while the collector may be writing the map; whatever value the read
\* gives goes to the UI, which is not part of the state.
WorkerProgress(w) ==
    /\ wPc[w] = "progress"
    /\ wPc' = [wPc EXCEPT ![w] = SendPc(wDoms[w])]
    /\ UNCHANGED <<configVars, mainPc, stage, failure, feedIdx, urlChan,
                   urlChanClosed, wUrl, wDoms, wTmp, domainChan, domainChanClosed,
                   errorChan, allDomains, duplicates, collectorPc, URLsFetched,
                   Errors, hist,
                   fetchedUnion, fetchedTotal>>
    /\ UNCHANGED <<validationVars, outputVars, fetchVars, validatorVars>>

\* Worker (runWithLogs, aggregator): the store of URLsFetched++, then
\* tracker.RecordSuccess.
WorkerCount(w) ==
    /\ wPc[w] = "count"
    /\ URLsFetched' = wTmp[w] + 1
    /\ hist' = [hist EXCEPT ![wUrl[w]].recS = Bump(@, NotifiesSuccess(tracker))]
    /\ wPc' = [wPc EXCEPT ![w] = SendPc(wDoms[w])]
    /\ wUrl' = [wUrl EXCEPT ![w] = 0]
    /\ wTmp' = [wTmp EXCEPT ![w] = 0]
    /\ UNCHANGED <<configVars, mainPc, stage, failure, feedIdx, urlChan,
                   urlChanClosed, wDoms, domainChan, domainChanClosed,
                   errorChan, allDomains, duplicates, collectorPc, Errors,
                   fetchedUnion, fetchedTotal>>
    /\ UNCHANGED <<validationVars, outputVars, fetchVars, validatorVars>>

\* Worker: domainChan <- domain, for the domains of the slice in turn; the
\* send blocks while the channel is full.
WorkerSend(w) ==
    /\ wPc[w] = "send"
    /\ Len(domainChan) < DomainChanCap
    /\ \E d \in wDoms[w] :
          /\ domainChan' = Append(domainChan, d)
          /\ wDoms' = [wDoms EXCEPT ![w] = @ \ {d}]
          /\ wPc' = [wPc EXCEPT ![w] = SendPc(wDoms[w] \ {d})]
    /\ UNCHANGED <<configVars, mainPc, stage, failure, feedIdx, urlChan,
                   urlChanClosed, wUrl, wTmp, domainChanClosed, errorChan,
                   allDomains, duplicates, collectorPc, URLsFetched, Errors, hist,
                   fetchedUnion, fetchedTotal>>
    /\ UNCHANGED <<validationVars, outputVars, fetchVars, validatorVars>>

\* Collector: for domain := range domainChan { ... }
Collect ==
    /\ collectorPc = "run"
    /\ domainChan # <<>>
    /\ LET c == CollectDomain(allDomains, duplicates, Head(domainChan)) IN
          /\ allDomains' = c.set
          /\ duplicates' = c.dups
    /\ domainChan' = Tail(domainChan)
    /\ UNCHANGED <<configVars, mainPc, stage, failure, feedIdx, urlChan,
                   urlChanClosed, wPc, wUrl, wDoms, wTmp, domainChanClosed,
                   errorChan, collectorPc, URLsFetched, Errors, hist,
                   fetchedUnion, fetchedTotal>>
    /\ UNCHANGED <<validationVars, outputVars, fetchVars, validatorVars>>

\* Collector: domainChan is closed and drained; collectorDone <- true
CollectorSignal ==
    /\ collectorPc = "run"
    /\ domainChan = <<>>
    /\ domainChanClosed
    /\ collectorPc' = "signal"
    /\ UNCHANGED <<configVars, mainPc, stage, failure, feedIdx, urlChan,
                   urlChanClosed, wPc, wUrl, wDoms, wTmp, domainChan,
                   domainChanClosed, errorChan, allDomains, duplicates,
                   URLsFetched, Errors, hist,
                   fetchedUnion, fetchedTotal>>
    /\ UNCHANGED <<validationVars, outputVars, fetchVars, validatorVars>>

\* Main: fetchWg.Wait(); close(domainChan)
MainCloseDomainChan ==
    /\ mainPc = "waitFetch"
    /\ FetchersDone(wPc, fetchWorkers)
    /\ domainChanClosed' = TRUE
    /\ mainPc' = "waitCollector"
    /\ UNCHANGED <<configVars, stage, failure, feedIdx, urlChan, urlChanClosed,
                   wPc, wUrl, wDoms, wTmp, domainChan, errorChan, allDomains,
                   duplicates, collectorPc, URLsFetched, Errors, hist,
                   fetchedUnion, fetchedTotal>>
    /\ UNCHANGED <<validationVars, outputVars, fetchVars, validatorVars>>

\* Main: <-collectorDone; close(errorChan); the errors are collected.
MainCollectErrors ==
    /\ mainPc = "waitCollector"
    /\ collectorPc = "signal"
    /\ collectorPc' = "done"
    /\ Errors' = errorChan
    /\ errorChan' = NoErrors
    /\ mainPc' = "fetched"
    /\ UNCHANGED <<configVars, stage, failure, feedIdx, urlChan, urlChanClosed,
                   wPc, wUrl, wDoms, wTmp, domainChan, domainChanClosed,
                   allDomains, duplicates, URLsFetched, hist,
                   fetchedUnion, fetchedTotal>>
    /\ UNCHANGED <<validationVars, outputVars, fetchVars, validatorVars>>

(***************************************************************************)
(* Pipeline driver after the fetch phase, and the validation orchestrator  *)
(* (validateDomains, validateDomainsWithTUI).                              *)
(***************************************************************************)
\* if aggregationStats.DomainsFound == 0 { log.Fatalf(...) }: runWithLogs and
\* the aggregator have the check, runWithTUI goes on without it.
FatalOnNoDomains(drv) == drv # "tui"

\* if enableDNS || enableHTTP { validate } else { all domains are valid }
ValidationEnabled(dns, http) == dns \/ http

\* make(chan string, workers*2)
ValidateChanCap(n) == n * 2

\* Mutant of ValidatorsDone: the wait ends with the first worker that ends.
ValidatorsDoneAny(pcs, n) == \E w \in 1..n : pcs[w] = "exit"

\* wg.Wait() of the validation orchestrator
ValidatorsDone(pcs, n) == \A w \in 1..n : pcs[w] = "exit"

\* The orders a range over a map (or the slice built from one) can have.
Orders(set) ==
    { q \in [1..Cardinality(set) -> set] : \A d \in set : \E i \in DOMAIN q : q[i] = d }

\* Mutant of MergeLocal: the local results are appended twice.
MergeLocalTwice(all, local) == all \o local \o local

\* validDomains = append(validDomains, localValid...)
MergeLocal(all, local) == all \o local

\* The lines writeOutput leaves in the file: all of them, or, when a flush
\* fails, the k first of them.
Written(lines, k) == SubSeq(lines, 1, k)

fetchDone == <<feedIdx, urlChan, urlChanClosed, wPc, wUrl, wDoms, wTmp,
               domainChan, domainChanClosed, errorChan, allDomains, duplicates,
               collectorPc, URLsFetched, Errors, hist, fetchedUnion,
               fetchedTotal>>

\* Main: aggregationStats.DomainsFound = len(allDomains) and the check of it.
MainCheckDomains ==
    /\ mainPc = "fetched"
    /\ IF FatalOnNoDomains(driver) /\ Cardinality(allDomains) = 0
       THEN /\ mainPc' = "exit"
            /\ stage' = "Failed"
            /\ failure' = "no domains found"
       ELSE /\ mainPc' = "mode"
            /\ UNCHANGED <<stage, failure>>
    /\ UNCHANGED <<configVars, fetchDone, validationVars, outputVars, fetchVars, validatorVars>>

\* Main: the flags decide between validation and none; with validation the
\* workers are started, as many as the -workers flag says (counts is the set
\* the flag is drawn from; the flag is used as it was parsed).
SelectMode(counts) ==
    /\ mainPc = "mode"
    /\ \E dns \in BOOLEAN, http \in BOOLEAN :
          /\ enableDNS' = dns
          /\ enableHTTP' = http
          /\ IF ValidationEnabled(dns, http)
             THEN \E n \in counts :
                    /\ workers' = n
                    /\ vPc' = [w \in WorkerIds |-> IF w <= n THEN "recv" ELSE "off"]
                    /\ vPending' = allDomains
                    /\ stage' = "Validating"
                    /\ mainPc' = "feed"
             ELSE /\ stage' = "SkipValidation"
                  /\ mainPc' = "skip"
                  /\ UNCHANGED <<workers, vPc, vPending>>
    /\ UNCHANGED <<configVars, failure, fetchDone, validateChan,
                   validateChanClosed, localValid, localInvalidCount, validCount,
                   invalidCount, validDomains, DomainsValid, DomainsInvalid,
                   outputVars, fetchVars, validatorVars>>

MainSelectMode == SelectMode(1..MaxWorkers)

\* Main, no validation: every domain of the set goes to validDomains.
MainSkipValidation ==
    /\ mainPc = "skip"
    /\ \E q \in Orders(allDomains) : validDomains' = q
    /\ DomainsValid' = Cardinality(allDomains)
    /\ stage' = "Writing"
    /\ mainPc' = "write"
    /\ UNCHANGED <<configVars, failure, fetchDone, enableDNS, enableHTTP, workers,
                   validateChan, validateChanClosed, vPending, vPc, localValid,
                   localInvalidCount, validCount, invalidCount, DomainsInvalid,
                   outputVars, fetchVars, validatorVars>>

\* Main: for domain := range domains { domainChan <- domain }
MainFeedDomain ==
    /\ mainPc = "feed"
    /\ Len(validateChan) < ValidateChanCap(workers)
    /\ \E d \in vPending :
          /\ validateChan' = Append(validateChan, d)
          /\ vPending' = vPending \ {d}
    /\ UNCHANGED <<configVars, mainPc, stage, failure, fetchDone, enableDNS,
                   enableHTTP, workers, validateChanClosed, vPc, localValid,
                   localInvalidCount, validCount, invalidCount, validDomains,
                   DomainsValid, DomainsInvalid, outputVars, fetchVars, validatorVars>>

\* Main: close(domainChan) once every domain is fed.
MainCloseValidateChan ==
    /\ mainPc = "feed"
    /\ vPending = {}
    /\ validateChanClosed' = TRUE
    /\ mainPc' = "waitValidate"
    /\ UNCHANGED <<configVars, stage, failure, fetchDone, enableDNS, enableHTTP,
                   workers, validateChan, vPending, vPc, localValid,
                   localInvalidCount, validCount, invalidCount, validDomains,
                   DomainsValid, DomainsInvalid, outputVars, fetchVars, validatorVars>>

\* Mutant of ValidationOp: with both flags the DNS validation alone is called.
ValidationOpDNSWins(dns, http) ==
    IF dns THEN "dns" ELSE IF http THEN "full" ELSE "none"

\* if enableHTTP { valid, err = v.ValidateFull(ctx, domain) } else if
\* enableDNS { valid, err = v.ValidateDNS(ctx, domain) }
ValidationOp(dns, http) ==
    IF http THEN "full" ELSE IF dns THEN "dns" ELSE "none"

\* What a call of the validator answers: ValidateDNS the outcome of the DNS
\* lookups, ValidateFull that of the HTTP requests it issues when the DNS
\* lookups succeeded; without a call valid stays false.
Answer(op, dnsValid, httpValid) ==
    CASE op = "full" -> dnsValid /\ httpValid
      [] op = "dns" -> dnsValid
      [] OTHER -> FALSE

\* Validation worker: for domain := range domainChan { validate; count }.
\* dnsValid and httpValid are what the lookups and the requests would
\* give; httpValid is kept false where no request is made.
ValidateDomain(w) ==
    /\ vPc[w] = "recv"
    /\ validateChan # <<>>
    /\ validateChan' = Tail(validateChan)
    /\ \E dnsValid \in BOOLEAN, httpValid \in BOOLEAN :
          LET op == ValidationOp(enableDNS, enableHTTP)
              request == op = "full" /\ dnsValid
          IN  /\ op = "none" => ~dnsValid
              /\ ~request => ~httpValid
              /\ validatedBy' = [validatedBy EXCEPT ![Head(validateChan)] = op]
              /\ httpIssued' = (httpIssued \/ request)
              /\ IF Answer(op, dnsValid, httpValid)
                 THEN /\ localValid' = [localValid EXCEPT ![w] = Append(@, Head(validateChan))]
                      /\ validCount' = validCount + 1
                      /\ UNCHANGED <<localInvalidCount, invalidCount>>
                 ELSE /\ localInvalidCount' = [localInvalidCount EXCEPT ![w] = @ + 1]
                      /\ invalidCount' = invalidCount + 1
                      /\ UNCHANGED <<localValid, validCount>>
    /\ UNCHANGED <<driver, fetchWorkers, tracker, urls, runCtxDone, queuedAtCancel,
                   startupVars, parseVars, lateVars>>
    /\ UNCHANGED <<mainPc, stage, failure, fetchDone, enableDNS,
                   enableHTTP, workers, validateChanClosed, vPending, vPc,
                   validDomains, DomainsValid, DomainsInvalid, outputVars,
                   fetchVars, validatorVars>>

\* Mutant of RangeEnds: the loop ends on an empty channel, closed or not.
RangeEndsOnEmpty(ch, closed) == ch = <<>>

\* for domain := range domainChan ends when the channel is closed and empty
RangeEnds(ch, closed) == ch = <<>> /\ closed

\* Validation worker: the channel is closed and empty; the local results are
\* merged under validMu and the worker ends.
MergeResults(w) ==
    /\ vPc[w] = "recv"
    /\ RangeEnds(validateChan, validateChanClosed)
    /\ validDomains' = MergeLocal(validDomains, localValid[w])
    /\ IF driver = "tui"
       THEN UNCHANGED <<DomainsValid, DomainsInvalid>>
       ELSE /\ DomainsValid' = DomainsValid + Len(localValid[w])
            /\ DomainsInvalid' = DomainsInvalid + localInvalidCount[w]
    /\ localValid' = [localValid EXCEPT ![w] = <<>>]
    /\ localInvalidCount' = [localInvalidCount EXCEPT ![w] = 0]
    /\ vPc' = [vPc EXCEPT ![w] = "exit"]
    /\ UNCHANGED <<configVars, mainPc, stage, failure, fetchDone, enableDNS,
                   enableHTTP, workers, validateChan, validateChanClosed,
                   vPending, validCount, invalidCount, outputVars, fetchVars, validatorVars>>

\* Main: wg.Wait() returns, the orchestrator returns validDomains.
MainValidationDone ==
    /\ mainPc = "waitValidate"
    /\ ValidatorsDone(vPc, workers)
    /\ stage' = "Writing"
    /\ mainPc' = "write"
    /\ UNCHANGED <<configVars, failure, fetchDone, validationVars, outputVars,
                   fetchVars, validatorVars>>

\* Mutant of WriteFailed: the error of the flush is dropped.
WriteFailedAtCreate(createErr, flushErr) == createErr

\* writeOutput returns the error of os.Create or else that of
\* writer.Flush(): the buffered writer keeps the first error of a write and
\* Flush returns it.
WriteFailed(createErr, flushErr) == createErr \/ flushErr

\* Main: if err := writeOutput(outputFile, validDomains); err != nil {
\* log.Fatalf(...) }.  os.Create can fail, and so can a flush of the
\* buffered writer, after the file was created and the k first lines were
\* written.
MainWriteOutput ==
    /\ mainPc = "write"
    /\ \E createErr \in BOOLEAN, flushErr \in BOOLEAN, k \in 0..Len(validDomains) :
          /\ createErr => ~flushErr /\ k = 0
          /\ ~createErr /\ ~flushErr => k = Len(validDomains)
          /\ outFile' = IF createErr THEN outFile
                        ELSE [created |-> TRUE, lines |-> Written(validDomains, k)]
          /\ IF WriteFailed(createErr, flushErr)
             THEN /\ mainPc' = "exit"
                  /\ stage' = "Failed"
                  /\ failure' = "write output"
             ELSE /\ mainPc' = "finish"
                  /\ UNCHANGED <<stage, failure>>
    /\ UNCHANGED <<configVars, fetchDone, validationVars, completion, statsSaved,
                   fetchVars, validatorVars>>

\* Main: tracker.Save() when there is a tracker, then printResults /
\* CompletionMsg.
MainFinish ==
    /\ mainPc = "finish"
    /\ statsSaved' = tracker
    /\ completion' = TRUE
    /\ stage' = "Done"
    /\ mainPc' = "exit"
    /\ UNCHANGED <<configVars, failure, fetchDone, validationVars, outFile,
                   fetchVars, validatorVars>>

Next ==
    \/ MainStartFetch
    \/ FeedURL
    \/ CloseURLChan
    \/ \E w \in FetchWorkerIds : WorkerFetch(w)
    \/ \E w \in FetchWorkerIds : WorkerExit(w)
    \/ \E w \in FetchWorkerIds : WorkerCount(w)
    \/ \E w \in FetchWorkerIds : WorkerProgress(w)
    \/ \E w \in FetchWorkerIds : WorkerSend(w)
    \/ Collect
    \/ CollectorSignal
    \/ MainCloseDomainChan
    \/ MainCollectErrors
    \/ MainCheckDomains
    \/ MainSelectMode
    \/ MainSkipValidation
    \/ MainFeedDomain
    \/ MainCloseValidateChan
    \/ \E w \in WorkerIds : ValidateDomain(w)
    \/ \E w \in WorkerIds : MergeResults(w)
    \/ MainValidationDone
    \/ MainWriteOutput
    \/ MainFinish

Spec == Init /\ [][Next]_vars

----------------------------------------------------------------------------
\* The pipeline under a context that its caller cancels

Queued(ch) == {ch[i] : i \in DOMAIN ch}

\* Where ctx is an argument of the orchestrator that runs: of validateDomains
\* and validateDomainsWithTUI in every driver, of fetchDomainsWithTUI in the
\* TUI driver (the fetch workers of runWithLogs and of the aggregator run
\* under a context.Background() of their own function).
CtxIsArgument(drv, pc) ==
    \/ pc \in {"feed", "waitValidate"}
    \/ drv = "tui" /\ pc = "waitFetch"

\* The caller of the orchestrator cancels ctx while the workers run.
CancelRun ==
    /\ ~runCtxDone
    /\ CtxIsArgument(driver, mainPc)
    /\ runCtxDone' = TRUE
    /\ queuedAtCancel' = [urls |-> Queued(urlChan), domains |-> Queued(validateChan)]
    /\ UNCHANGED <<driver, fetchWorkers, tracker, urls, startupVars, parseVars, modeVars, lateVars, mainPc,
                   stage, failure, fetchPhaseVars, validationVars, outputVars,
                   fetchVars, validatorVars>>

NextCancel ==
    \/ Next
    \/ CancelRun

SpecCancel == Init /\ [][NextCancel]_vars

----------------------------------------------------------------------------
\* The pipeline with the least worker counts the flags accept (SpecCounts)

\* -fetch-workers and -workers are read by flag.IntVar and used as they are:
\* zero is accepted for both.
LeastCounts == {0, 1}

InitCounts ==
    /\ FetchIdle
    /\ driver \in {"logs", "tui", "aggregator"}
    /\ fetchWorkers \in LeastCounts
    /\ tracker \in (IF driver = "aggregator" THEN {FALSE} ELSE BOOLEAN)
    /\ urls \in {[i \in 1..n |-> i] : n \in 1..NumURLs}
    /\ PipelineIdle
    /\ StartupIdle
    /\ ValidatorIdle

MainSelectModeCounts == SelectMode(LeastCounts)

NextCounts ==
    \/ MainStartFetch
    \/ FeedURL
    \/ CloseURLChan
    \/ \E w \in FetchWorkerIds : WorkerFetch(w)
    \/ \E w \in FetchWorkerIds : WorkerExit(w)
    \/ \E w \in FetchWorkerIds : WorkerCount(w)
    \/ \E w \in FetchWorkerIds : WorkerProgress(w)
    \/ \E w \in FetchWorkerIds : WorkerSend(w)
    \/ Collect
    \/ CollectorSignal
    \/ MainCloseDomainChan
    \/ MainCollectErrors
    \/ MainCheckDomains
    \/ MainSelectModeCounts
    \/ MainSkipValidation
    \/ MainFeedDomain
    \/ MainCloseValidateChan
    \/ \E w \in WorkerIds : ValidateDomain(w)
    \/ \E w \in WorkerIds : MergeResults(w)
    \/ MainValidationDone
    \/ MainWriteOutput
    \/ MainFinish

SpecCounts == InitCounts /\ [][NextCounts]_vars

(***************************************************************************)
(* Validator (internal/validator): NewValidatorWithResolvers, getResolver, *)
(* ValidateDNS, ValidateHTTP, ValidateFull, called by two goroutines       *)
(* (SpecValidator).                                                        *)
(***************************************************************************)
\* v.cacheTTL = 5 * time.Minute, in minutes
cacheTTL == 5

\* The -resolvers lists: strings.Split followed by TrimSpace gives entries
\* that are a server address or the empty string; NewValidator hands over
\* the empty list.
ServerLists ==
    UNION {[1..n -> {"", "1.1.1.1:53"}] : n \in 0..MaxServers}

\* NewValidatorWithResolvers: the number of resolvers the validator holds.
\* The empty list gives the system resolver; of another list every entry
\* that is not the empty string gives a resolver.
NewValidatorWithResolvers(dnsServers) ==
    IF Len(dnsServers) = 0 THEN 1
    ELSE Cardinality({i \in DOMAIN dnsServers : dnsServers[i] # ""})

\* atomic.AddUint32(&v.nextResolver, 1): the counter wraps at 2^32.
AddUint32(x) ==
    IF x[1] + 1 < LimbBase THEN <<x[1] + 1, x[2]>>
    ELSE <<0, (x[2] + 1) % LimbBase>>

\* x % k for a uint32 x
ModUint32(x, k) == ((x[2] % k) * (LimbBase % k) + (x[1] % k)) % k

\* getResolver: the index selected and the counter it leaves; with one
\* resolver the counter is not touched, with none the modulo divides by
\* zero.
getResolver(n, counter) ==
    IF n = 1 THEN [panic |-> FALSE, idx |-> 0, counter |-> counter]
    ELSE IF n = 0 THEN [panic |-> TRUE, idx |-> 0, counter |-> AddUint32(counter)]
    ELSE [panic |-> FALSE, idx |-> ModUint32(AddUint32(counter), n),
          counter |-> AddUint32(counter)]

\* Mutant of CacheHit: an entry is used whatever its age.
CacheHitStale(enabled, entry, t) == enabled /\ entry.present

\* The cache check of ValidateDNS: the entry is used when it is there and
\* time.Since(cached.timestamp) < v.cacheTTL.
CacheHit(enabled, entry, t) ==
    enabled /\ entry.present /\ t - entry.timestamp < cacheTTL

\* for i := 0; i < n; i++ { result := <-results; if result.valid { valid } }
\* over the results in the order they arrive.
RECURSIVE AnyValid(_, _, _)
AnyValid(results, i, n) ==
    IF i >= n THEN FALSE
    ELSE IF results[i + 1] THEN TRUE
    ELSE AnyValid(results, i + 1, n)

\* Mutant of DNSOutcome: the first result that arrives decides.
DNSOutcomeFirst(results) == results[1]

\* ValidateDNS on a miss: three lookups (A, AAAA, CNAME) run at once, each
\* sends valid or not, the loop stops at the first valid one.
DNSOutcome(results) == AnyValid(results, 0, 3)

\* Mutant of HTTPOutcome: the first answer decides.
HTTPOutcomeFirst(results) == results[1]

\* ValidateHTTP: two HEAD requests (https, http) run at once, each sends
\* valid (status < 500) or not, the loop stops at the first valid one.
HTTPOutcome(results) == AnyValid(results, 0, 2)

\* Mutant of RunsHTTP: the HTTP validation runs whatever DNS said.
RunsHTTPAlways(dnsValid) == TRUE

\* ValidateFull: if err != nil || !dnsValid { return false, err }
RunsHTTP(dnsValid) == dnsValid

\* ValidateDNS has returned dnsValid to the call of caller c: ValidateDNS
\* itself is over, ValidateFull goes on to ValidateHTTP or returns false.
AfterDNS(rec, dnsValid) ==
    IF rec.op = "dns"
    THEN [rec EXCEPT !.pc = "done", !.domain = "", !.dnsSeen = <<>>,
                     !.dnsValid = dnsValid, !.result = dnsValid]
    ELSE IF RunsHTTP(dnsValid)
         THEN [rec EXCEPT !.pc = "http", !.domain = "", !.dnsSeen = <<>>,
                          !.dnsValid = dnsValid]
         ELSE [rec EXCEPT !.pc = "done", !.domain = "", !.dnsSeen = <<>>,
                          !.dnsValid = dnsValid, !.result = FALSE]

\* The counter of a validator when it is taken up: that of a new one, or of
\* one whose getResolver has advanced it 2^32 - 2 times before (the counter
\* advances only with two resolvers or more).
Counters(n) ==
    IF n >= 2 THEN {<<0, 0>>, <<LimbBase - 2, LimbBase - 1>>} ELSE {<<0, 0>>}

InitValidator ==
    /\ FetchIdle
    /\ driver = "logs" /\ fetchWorkers = 1 /\ tracker = FALSE /\ urls = <<>>
    /\ PipelineIdle
    /\ StartupIdle
    /\ resolvers \in {NewValidatorWithResolvers(l) : l \in ServerLists}
    /\ useCache \in BOOLEAN
    /\ nextResolver \in Counters(resolvers)
    /\ cache = [d \in ValDomains |-> NoEntry]
    /\ now = 0
    /\ call = [c \in CallerIds |-> NoCall]
    /\ picks = <<>>
    /\ callsLeft = MaxCalls
    /\ cacheMu = Unlocked

\* A goroutine calls v.ValidateDNS(ctx, d) or v.ValidateFull(ctx, d).
StartCall(c) ==
    /\ call[c].pc \in {"idle", "done"}
    /\ callsLeft > 0
    /\ callsLeft' = callsLeft - 1
    /\ \E d \in ValDomains, op \in {"dns", "full"} :
          call' = [call EXCEPT ![c] = [NoCall EXCEPT !.pc = "check",
                                                     !.domain = d, !.op = op]]
    /\ UNCHANGED <<resolvers, useCache, nextResolver, cache, now, picks>>
    /\ UNCHANGED <<fetchVars, pipeVars, cacheMu>>

\* ValidateDNS, the cache check under cacheMu.RLock.
CheckCache(c) ==
    /\ call[c].pc = "check"
    /\ call' = [call EXCEPT ![c] =
                  IF CacheHit(useCache, cache[call[c].domain], now)
                  THEN AfterDNS([call[c] EXCEPT !.hit = TRUE],
                                cache[call[c].domain].valid)
                  ELSE [call[c] EXCEPT !.pc = "resolve"]]
    /\ UNCHANGED <<resolvers, useCache, nextResolver, cache, now, picks, callsLeft>>
    /\ UNCHANGED <<fetchVars, pipeVars, cacheMu>>

\* ValidateDNS on a miss: getResolver, then the three lookups and the loop
\* over their results.
Resolve(c) ==
    /\ call[c].pc = "resolve"
    /\ LET r == getResolver(resolvers, nextResolver)
       IN  /\ nextResolver' = r.counter
           /\ IF r.panic
              THEN /\ call' = [call EXCEPT ![c].pc = "panic"]
                   /\ picks' = picks
              ELSE /\ picks' = Append(picks, r.idx)
                   /\ \E results \in [1..3 -> BOOLEAN] :
                         call' = [call EXCEPT ![c].pc = "store",
                                              ![c].dnsSeen = results,
                                              ![c].dnsValid = DNSOutcome(results)]
    /\ UNCHANGED <<resolvers, useCache, cache, now, callsLeft>>
    /\ UNCHANGED <<fetchVars, pipeVars, cacheMu>>

\* ValidateDNS: the result goes to the cache under cacheMu.Lock, with
\* time.Now(), and is returned.
Store(c) ==
    /\ call[c].pc = "store"
    /\ cache' = IF useCache
                THEN [cache EXCEPT ![call[c].domain] =
                         Stores(@, call[c].dnsValid, now)]
                ELSE cache
    /\ call' = [call EXCEPT ![c] = AfterDNS(call[c], call[c].dnsValid)]
    /\ UNCHANGED <<resolvers, useCache, nextResolver, now, picks, callsLeft>>
    /\ UNCHANGED <<fetchVars, pipeVars, cacheMu>>

\* ValidateFull: ValidateHTTP, whose outcome is the result.
ValidateHTTP(c) ==
    /\ call[c].pc = "http"
    /\ \E results \in [1..2 -> BOOLEAN] :
          call' = [call EXCEPT ![c].pc = "done",
                               ![c].httpSeen = results,
                               ![c].result = HTTPOutcome(results)]
    /\ UNCHANGED <<resolvers, useCache, nextResolver, cache, now, picks, callsLeft>>
    /\ UNCHANGED <<fetchVars, pipeVars, cacheMu>>

\* A minute passes.  Only the cache reads the clock, to tell the age of an
\* entry when a call looks it up, and a call is over within seconds (the
\* lookups time out after 500 ms, the HEAD requests after 8 s), so the
\* minutes pass between the calls, while there is an entry to age and a
\* call to come.
Tick ==
    /\ useCache
    /\ callsLeft > 0
    /\ \E d \in ValDomains : cache[d].present
    /\ \A c \in CallerIds : call[c].pc \in {"idle", "done", "panic"}
    /\ now < MaxClock
    /\ now' = now + 1
    /\ UNCHANGED <<resolvers, useCache, nextResolver, cache, call, picks, callsLeft>>
    /\ UNCHANGED <<fetchVars, pipeVars, cacheMu>>

NextValidator ==
    \/ \E c \in CallerIds : StartCall(c)
    \/ \E c \in CallerIds : CheckCache(c)
    \/ \E c \in CallerIds : Resolve(c)
    \/ \E c \in CallerIds : Store(c)
    \/ \E c \in CallerIds : ValidateHTTP(c)
    \/ Tick

SpecValidator == InitValidator /\ [][NextValidator]_vars

----------------------------------------------------------------------------
\* ValidateDNS lock by lock: the steps of concurrent calls around v.cacheMu

\* Mutant of WriteLock: the cache write takes the read lock.
WriteLockShared == "RLock"

\* The cache write of ValidateDNS is under v.cacheMu.Lock().
WriteLock == "Lock"

\* The read of the cache is under v.cacheMu.RLock().
ReadLock == "RLock"

\* sync.RWMutex: RLock is granted while no writer holds the mutex, Lock
\* while nobody holds it.
Granted(mu, kind) ==
    IF kind = "RLock" THEN mu.writer = "none"
    ELSE mu.writer = "none" /\ mu.readers = {}

Acquire(mu, kind, c) ==
    IF kind = "RLock" THEN [mu EXCEPT !.readers = @ \cup {c}]
    ELSE [mu EXCEPT !.writer = c]

Release(mu, kind, c) ==
    IF kind = "RLock" THEN [mu EXCEPT !.readers = @ \ {c}]
    ELSE [mu EXCEPT !.writer = "none"]

\* The entries a validator that has been in use can hold for a domain when
\* the clock shows cacheTTL: none, one that has expired, one that has not.
Entries ==
    {NoEntry} \cup [present : {TRUE}, valid : BOOLEAN, timestamp : {0, cacheTTL}]

InitLocks ==
    /\ FetchIdle
    /\ driver = "logs" /\ fetchWorkers = 1 /\ tracker = FALSE /\ urls = <<>>
    /\ PipelineIdle
    /\ StartupIdle
    /\ resolvers = 1
    /\ useCache \in BOOLEAN
    /\ nextResolver = <<0, 0>>
    /\ cache \in [ValDomains -> Entries]
    /\ now = cacheTTL
    /\ call = [c \in CallerIds |-> NoCall]
    /\ picks = <<>>
    /\ callsLeft = MaxCalls
    /\ cacheMu = Unlocked

\* A goroutine calls v.ValidateDNS(ctx, d): if v.useCache { ... }
BeginValidateDNS(c) ==
    /\ call[c].pc \in {"idle", "done"}
    /\ callsLeft > 0
    /\ callsLeft' = callsLeft - 1
    /\ \E d \in ValDomains :
          call' = [call EXCEPT ![c] =
                     [NoCall EXCEPT !.pc = IF useCache THEN "rlock" ELSE "lookup",
                                    !.domain = d, !.op = "dns"]]
    /\ UNCHANGED <<resolvers, useCache, nextResolver, cache, now, picks, cacheMu>>
    /\ UNCHANGED <<fetchVars, pipeVars>>

\* v.cacheMu.RLock()
RLockCache(c) ==
    /\ call[c].pc = "rlock"
    /\ Granted(cacheMu, ReadLock)
    /\ cacheMu' = Acquire(cacheMu, ReadLock, c)
    /\ call' = [call EXCEPT ![c].pc = "read"]
    /\ UNCHANGED <<resolvers, useCache, nextResolver, cache, now, picks, callsLeft>>
    /\ UNCHANGED <<fetchVars, pipeVars>>

\* cached, ok := v.cache[domain] and the test of its age
ReadCache(c) ==
    /\ call[c].pc = "read"
    /\ call' = [call EXCEPT ![c].pc = "runlock",
                            ![c].hit = CacheHit(useCache, cache[call[c].domain], now),
                            ![c].dnsValid = cache[call[c].domain].valid]
    /\ UNCHANGED <<resolvers, useCache, nextResolver, cache, now, picks, callsLeft,
                   cacheMu>>
    /\ UNCHANGED <<fetchVars, pipeVars>>

\* v.cacheMu.RUnlock(), on the hit (return cached.valid) and on the other
\* paths (no entry, expired entry)
RUnlockCache(c) ==
    /\ call[c].pc = "runlock"
    /\ cacheMu' = Release(cacheMu, ReadLock, c)
    /\ call' = [call EXCEPT ![c] =
                  IF call[c].hit
                  THEN [call[c] EXCEPT !.pc = "done", !.result = call[c].dnsValid]
                  ELSE [call[c] EXCEPT !.pc = "lookup", !.dnsValid = FALSE]]
    /\ UNCHANGED <<resolvers, useCache, nextResolver, cache, now, picks, callsLeft>>
    /\ UNCHANGED <<fetchVars, pipeVars>>

\* The three lookups run and the loop over their results ends with valid.
\* Without the cache the call returns it.
Lookups(c) ==
    /\ call[c].pc = "lookup"
    /\ \E results \in [1..3 -> BOOLEAN] :
          call' = [call EXCEPT ![c].pc = IF useCache THEN "lock" ELSE "done",
                               ![c].dnsValid = DNSOutcome(results),
                               ![c].result = DNSOutcome(results)]
    /\ UNCHANGED <<resolvers, useCache, nextResolver, cache, now, picks, callsLeft,
                   cacheMu>>
    /\ UNCHANGED <<fetchVars, pipeVars>>

\* v.cacheMu.Lock()
LockCache(c) ==
    /\ call[c].pc = "lock"
    /\ Granted(cacheMu, WriteLock)
    /\ cacheMu' = Acquire(cacheMu, WriteLock, c)
    /\ call' = [call EXCEPT ![c].pc = "write"]
    /\ UNCHANGED <<resolvers, useCache, nextResolver, cache, now, picks, callsLeft>>
    /\ UNCHANGED <<fetchVars, pipeVars>>

\* v.cache[domain] = &dnsResult{valid: valid, timestamp: time.Now()}
WriteCache(c) ==
    /\ call[c].pc = "write"
    /\ cache' = [cache EXCEPT ![call[c].domain] =
                    Stores(@, call[c].dnsValid, now)]
    /\ call' = [call EXCEPT ![c].pc = "unlock"]
    /\ UNCHANGED <<resolvers, useCache, nextResolver, now, picks, callsLeft, cacheMu>>
    /\ UNCHANGED <<fetchVars, pipeVars>>

\* v.cacheMu.Unlock(); return valid, nil
UnlockCache(c) ==
    /\ call[c].pc = "unlock"
    /\ cacheMu' = Release(cacheMu, WriteLock, c)
    /\ call' = [call EXCEPT ![c].pc = "done"]
    /\ UNCHANGED <<resolvers, useCache, nextResolver, cache, now, picks, callsLeft>>
    /\ UNCHANGED <<fetchVars, pipeVars>>

NextLocks ==
    \/ \E c \in CallerIds : BeginValidateDNS(c)
    \/ \E c \in CallerIds : RLockCache(c)
    \/ \E c \in CallerIds : ReadCache(c)
    \/ \E c \in CallerIds : RUnlockCache(c)
    \/ \E c \in CallerIds : Lookups(c)
    \/ \E c \in CallerIds : LockCache(c)
    \/ \E c \in CallerIds : WriteCache(c)
    \/ \E c \in CallerIds : UnlockCache(c)

SpecLocks == InitLocks /\ [][NextLocks]_vars

----------------------------------------------------------------------------
\* The start of a run: connectivity probe and loadURLs

\* A line of the source file is the sequence of its characters.
HttpPrefix == <<"h", "t", "t", "p", ":", "/", "/">>

HttpsPrefix == <<"h", "t", "t", "p", "s", ":", "/", "/">>

\* The lines source files are made of here: empty, blank, comments, URLs
\* (bare and padded), and lines that are neither.
SourceLines ==
    { <<>>,
      <<" ", "\t">>,
      <<"#", "x">>,
      <<" ", "#">>,
      HttpPrefix \o <<"a">>,
      HttpsPrefix \o <<"b">>,
      <<" ">> \o HttpPrefix \o <<"a", "\t">>,
      <<"f", "t", "p", ":", "/", "/", "a">>,
      <<"h", "t", "t", "p", ":", "/", "a">>,
      <<"a", " ", "#">> }

SourceFiles ==
    {[openErr |-> TRUE, lines |-> <<>>, scanErr |-> FALSE]}
    \cup { [openErr |-> FALSE, lines |-> l, scanErr |-> e] :
             l \in UNION {[1..n -> SourceLines] : n \in 0..MaxLines},
             e \in BOOLEAN }

\* The white space strings.TrimSpace removes.
Space == {" ", "\t"}

RECURSIVE TrimLeft(_)
TrimLeft(line) ==
    IF line # <<>> /\ Head(line) \in Space THEN TrimLeft(Tail(line)) ELSE line

RECURSIVE TrimRight(_)
TrimRight(line) ==
    IF line # <<>> /\ line[Len(line)] \in Space
    THEN TrimRight(SubSeq(line, 1, Len(line) - 1))
    ELSE line

\* strings.TrimSpace
TrimSpace(line) == TrimRight(TrimLeft(line))

\* strings.HasPrefix
HasPrefix(line, prefix) ==
    Len(line) >= Len(prefix) /\ SubSeq(line, 1, Len(prefix)) = prefix

\* Mutant of ValidURLPrefix: the scheme alone is tested.
ValidURLPrefixLoose(line) == HasPrefix(line, <<"h", "t", "t", "p">>)

\* strings.HasPrefix(line, "http://") || strings.HasPrefix(line, "https://")
ValidURLPrefix(line) == HasPrefix(line, HttpPrefix) \/ HasPrefix(line, HttpsPrefix)

\* The loop of loadURLs over the lines the scanner delivers, from line i on,
\* with the URLs found before.
RECURSIVE ScanLines(_, _, _)
ScanLines(lines, i, found) ==
    IF i > Len(lines) THEN [urls |-> found, err |-> "none"]
    ELSE LET line == TrimSpace(lines[i])
         IN  IF line = <<>> \/ HasPrefix(line, <<"#">>)
             THEN ScanLines(lines, i + 1, found)
             ELSE IF ~ValidURLPrefix(line)
                  THEN [urls |-> <<>>, err |-> "invalid URL"]
                  ELSE ScanLines(lines, i + 1, Append(found, line))

loadURLs(file) ==
    IF file.openErr THEN [urls |-> <<>>, err |-> "open"]
    ELSE LET r == ScanLines(file.lines, 1, <<>>)
         IN  IF r.err # "none" THEN r
             ELSE IF file.scanErr THEN [urls |-> <<>>, err |-> "read"]
             ELSE IF Len(r.urls) = 0 THEN [urls |-> <<>>, err |-> "no valid URLs"]
             ELSE r

\* runWithLogs and runWithTUI begin with netutil.CheckConnectionWithRetry,
\* the aggregator with loadURLs.
ProbesFirst(drv) == drv # "aggregator"

InitStartup ==
    /\ FetchIdle
    /\ driver \in {"logs", "tui", "aggregator"}
    /\ fetchWorkers = 1 /\ tracker = FALSE /\ urls = <<>>
    /\ PipelineIdle
    /\ ValidatorIdle
    /\ srcFile \in SourceFiles
    /\ startPc = IF ProbesFirst(driver) THEN "probe" ELSE "load"
    /\ probed = FALSE
    /\ allURLs = <<>>
    /\ loadErr = "none"
    /\ health = [u \in URLs |-> NoStats]
    /\ filteredURLs = <<>>
    /\ filterCalls = 0
    /\ ParseIdle

\* if err := netutil.CheckConnectionWithRetry(ctx, quiet); err != nil {
\* log.Fatalf(...) }: CheckInternetConnection dials the test hosts.
CheckConnection ==
    /\ startPc = "probe"
    /\ probed' = TRUE
    /\ \E connected \in BOOLEAN :
          IF connected
          THEN startPc' = "load" /\ UNCHANGED <<stage, failure>>
          ELSE /\ startPc' = "fatal"
               /\ stage' = "Failed"
               /\ failure' = "no internet connection"
    /\ UNCHANGED <<driver, fetchWorkers, tracker, urls, runCtxDone, queuedAtCancel, parseVars, modeVars, lateVars,
                   srcFile, allURLs, loadErr, health, filteredURLs, filterCalls,
                   mainPc, fetchPhaseVars, validationVars, outputVars, fetchVars,
                   validatorVars>>

\* allURLs, err := loadURLs(sourceFile); if err != nil { log.Fatalf(...) }
LoadSource ==
    /\ startPc = "load"
    /\ LET r == loadURLs(srcFile)
       IN  /\ allURLs' = r.urls
           /\ loadErr' = r.err
           /\ IF r.err # "none"
              THEN /\ startPc' = "fatal"
                   /\ stage' = "Failed"
                   /\ failure' = "load source file"
              ELSE startPc' = "loaded" /\ UNCHANGED <<stage, failure>>
    /\ UNCHANGED <<driver, fetchWorkers, tracker, urls, runCtxDone, queuedAtCancel, parseVars, modeVars, lateVars,
                   srcFile, probed, health, filteredURLs, filterCalls,
                   mainPc, fetchPhaseVars, validationVars, outputVars, fetchVars,
                   validatorVars>>

NextStartup ==
    \/ CheckConnection
    \/ LoadSource

SpecStartup == InitStartup /\ [][NextStartup]_vars

----------------------------------------------------------------------------
\* The start of a run: tracker.FilterURLs, then the fetch phase

\* MaxFailures before a URL is filtered out
MaxFailures == 3

\* The records stats.json can hold for a URL: none, one short of the
\* failure limit, one at the limit, one that is blacklisted.
HealthRecords ==
    { NoStats,
      [known |-> TRUE, Blacklisted |-> FALSE, FailureCount |-> MaxFailures - 1],
      [known |-> TRUE, Blacklisted |-> FALSE, FailureCount |-> MaxFailures],
      [known |-> TRUE, Blacklisted |-> TRUE, FailureCount |-> 0] }

\* Mutant of IsBlacklisted: the failure count is not looked at.
IsBlacklistedByFlag(stats, url) == stats[url].known /\ stats[url].Blacklisted

\* Tracker.IsBlacklisted
IsBlacklisted(stats, url) ==
    /\ stats[url].known
    /\ stats[url].Blacklisted \/ stats[url].FailureCount >= MaxFailures

\* Tracker.FilterURLs: the loop over urls from index i on.
RECURSIVE FilterFrom(_, _, _, _, _)
FilterFrom(stats, list, i, active, filtered) ==
    IF i > Len(list) THEN [active |-> active, filtered |-> filtered]
    ELSE IF IsBlacklisted(stats, list[i])
         THEN FilterFrom(stats, list, i + 1, active, Append(filtered, list[i]))
         ELSE FilterFrom(stats, list, i + 1, Append(active, list[i]), filtered)

FilterURLs(stats, list) == FilterFrom(stats, list, 1, <<>>, <<>>)

\* The lists of distinct URLs loadURLs can have returned.
LoadedLists ==
    { l \in UNION {[1..n -> URLs] : n \in 1..NumURLs} :
        \A i, j \in DOMAIN l : i # j => l[i] # l[j] }

InitFilter ==
    /\ FetchIdle
    /\ driver \in {"logs", "tui", "aggregator"}
    /\ fetchWorkers = 1
    /\ tracker \in (IF driver = "aggregator" THEN {FALSE} ELSE BOOLEAN)
    /\ urls = <<>>
    /\ PipelineIdle
    /\ ValidatorIdle
    /\ srcFile = NoFile
    /\ startPc = "loaded"
    /\ probed = FALSE
    /\ allURLs \in LoadedLists
    /\ loadErr = "none"
    /\ health \in (IF tracker THEN [URLs -> HealthRecords]
                   ELSE {[u \in URLs |-> NoStats]})
    /\ filteredURLs = <<>>
    /\ filterCalls = 0
    /\ ParseIdle

\* if !noTracking { urls, filteredURLs = tracker.FilterURLs(allURLs) } else
\* { urls = allURLs }; if len(urls) == 0 { log.Fatalf(...) }
FilterSources ==
    /\ startPc = "loaded"
    /\ LET r == IF tracker THEN FilterURLs(health, allURLs)
                ELSE [active |-> allURLs, filtered |-> <<>>]
       IN  /\ urls' = r.active
           /\ filteredURLs' = r.filtered
           /\ filterCalls' = Bump(filterCalls, tracker)
           /\ IF Len(r.active) = 0
              THEN /\ startPc' = "fatal"
                   /\ stage' = "Failed"
                   /\ failure' = "no active URLs"
              ELSE startPc' = "ready" /\ UNCHANGED <<stage, failure>>
    /\ UNCHANGED <<driver, fetchWorkers, tracker, runCtxDone, queuedAtCancel, parseVars, modeVars, lateVars,
                   srcFile, probed, allURLs, loadErr, health,
                   mainPc, fetchPhaseVars, validationVars, outputVars, fetchVars,
                   validatorVars>>

NextFilter ==
    \/ FilterSources
    \/ MainStartFetch
    \/ FeedURL
    \/ CloseURLChan
    \/ \E w \in FetchWorkerIds : WorkerFetch(w)
    \/ \E w \in FetchWorkerIds : WorkerExit(w)
    \/ \E w \in FetchWorkerIds : WorkerCount(w)
    \/ \E w \in FetchWorkerIds : WorkerProgress(w)
    \/ \E w \in FetchWorkerIds : WorkerSend(w)
    \/ Collect
    \/ CollectorSignal
    \/ MainCloseDomainChan
    \/ MainCollectErrors

SpecFilter == InitFilter /\ [][NextFilter]_vars

----------------------------------------------------------------------------
\* The domain parser: fetchAttempt's scan loop, ParseDomain, cleanDomain and
\* IsValidDomain.  A string is the sequence of its characters.

maxDomainLength == 253

maxLabelLength == 63

minDomainLength == 3

LowerLetters ==
    <<"a", "b", "c", "d", "e", "f", "g", "h", "i", "j", "k", "l", "m", "n", "o", "p", "q", "r", "s", "t", "u", "v", "w", "x", "y", "z">>

UpperLetters ==
    <<"A", "B", "C", "D", "E", "F", "G", "H", "I", "J", "K", "L", "M", "N", "O", "P", "Q", "R", "S", "T", "U", "V", "W", "X", "Y", "Z">>

Digits == {"0", "1", "2", "3", "4", "5", "6", "7", "8", "9"}

Letters == {LowerLetters[i] : i \in DOMAIN LowerLetters}
               \cup {UpperLetters[i] : i \in DOMAIN UpperLetters}

\* Mutant of ToLower: the letter case is kept.
ToLowerNot(s) == s

\* strings.ToLower, on ASCII
ToLower(s) ==
    [i \in 1..Len(s) |->
        IF \E k \in DOMAIN UpperLetters : UpperLetters[k] = s[i]
        THEN LowerLetters[CHOOSE k \in DOMAIN UpperLetters : UpperLetters[k] = s[i]]
        ELSE s[i]]

\* strings.Contains(s, c), c one character
Contains(s, c) == \E i \in 1..Len(s) : s[i] = c

\* strings.Count(s, c), c one character
Count(s, c) == Cardinality({i \in 1..Len(s) : s[i] = c})

\* strings.Index(s, c), c one character; positions count from 1 and 0
\* stands for the -1 of a character that does not occur.
Index(s, c) ==
    IF Contains(s, c)
    THEN CHOOSE i \in 1..Len(s) : s[i] = c /\ \A j \in 1..(i - 1) : s[j] # c
    ELSE 0

\* strings.LastIndex(s, c), with the same convention
LastIndex(s, c) ==
    IF Contains(s, c)
    THEN CHOOSE i \in 1..Len(s) : s[i] = c /\ \A j \in (i + 1)..Len(s) : s[j] # c
    ELSE 0

\* if idx := strings.Index(s, c); idx != -1 { s = s[:idx] }
CutAt(s, c) == IF Index(s, c) # 0 THEN SubSeq(s, 1, Index(s, c) - 1) ELSE s

\* strings.HasSuffix
HasSuffix(s, suffix) ==
    Len(s) >= Len(suffix)
      /\ SubSeq(s, Len(s) - Len(suffix) + 1, Len(s)) = suffix

\* strings.TrimPrefix
TrimPrefix(s, prefix) ==
    IF HasPrefix(s, prefix) THEN SubSeq(s, Len(prefix) + 1, Len(s)) ELSE s

\* strings.TrimSuffix
TrimSuffix(s, suffix) ==
    IF HasSuffix(s, suffix) THEN SubSeq(s, 1, Len(s) - Len(suffix)) ELSE s

\* strings.Split(s, sep), sep one character: the pieces between the
\* separators, empty ones included.
RECURSIVE Split(_, _)
Split(s, sep) ==
    IF Index(s, sep) = 0 THEN <<s>>
    ELSE <<SubSeq(s, 1, Index(s, sep) - 1)>>
            \o Split(SubSeq(s, Index(s, sep) + 1, Len(s)), sep)

\* strings.Fields: the maximal runs of characters that are not white space.
RECURSIVE Fields(_)
Fields(s) ==
    LET t == TrimLeft(s)
        ends == {i \in 1..Len(t) : t[i] \in Space}
        stop == IF ends = {} THEN Len(t) + 1
                ELSE CHOOSE i \in ends : \A j \in ends : i <= j
    IN  IF t = <<>> THEN <<>>
        ELSE <<SubSeq(t, 1, stop - 1)>> \o Fields(SubSeq(t, stop, Len(t)))

\* The characters net/url accepts unescaped in a host.
HostChars ==
    Letters \cup Digits
      \cup {"-", "_", ".", "~", "!", "$", "&", "'", "(", ")", "*", "+", ",",
            ";", "=", ":", "[", "]", "<", ">", "\""}

\* url.Parse(line) for a line that begins with http:// or https://, as far
\* as its Host goes: the authority ends at the first "/" or "?", the host
\* follows the last "@", a port is made of digits, and a control character
\* or a character that is not allowed in a host is an error.
urlParse(line) ==
    LET rest == SubSeq(line, Index(line, "/") + 2, Len(line))
        authority == CutAt(CutAt(rest, "?"), "/")
        host == SubSeq(authority, LastIndex(authority, "@") + 1, Len(authority))
        colon == LastIndex(host, ":")
        port == SubSeq(host, colon + 1, Len(host))
        bad == \/ Contains(line, "\t")
               \/ \E i \in 1..Len(host) : host[i] \notin HostChars
               \/ colon # 0 /\ \E i \in 1..Len(port) : port[i] \notin Digits
    IN  [ok |-> ~bad, Host |-> IF bad THEN <<>> ELSE host]

\* cleanDomain
cleanDomain(domain) ==
    LET d1 == ToLower(TrimSpace(domain))
        d2 == TrimPrefix(d1, HttpPrefix)
        d3 == TrimPrefix(d2, HttpsPrefix)
        d4 == TrimPrefix(d3, <<"w", "w", "w", ".">>)
        d5 == TrimSuffix(d4, <<".">>)
        d6 == CutAt(CutAt(CutAt(d5, "/"), "?"), ":")
        d7 == TrimPrefix(d6, <<"*", ".">>)
        d8 == TrimSpace(TrimPrefix(d7, <<".">>))
    IN  IF d8 = <<>> \/ ~Contains(d8, ".") THEN <<>> ELSE d8

\* ParseDomain: the line with its inline comment cut off and trimmed.
Uncommented(line) == TrimSpace(CutAt(CutAt(line, "#"), ";"))

\* ParseDomain
ParseDomain(line0) ==
    LET line == Uncommented(line0)
        parts == Fields(line)
    IN  IF line = <<>> THEN <<>>
        ELSE IF HasPrefix(line, <<"|", "|">>)
        THEN cleanDomain(CutAt(TrimPrefix(line, <<"|", "|">>), "^"))
        ELSE IF HasPrefix(line, <<"@", "@", "|", "|">>) THEN <<>>
        ELSE IF /\ \/ HasPrefix(line, <<"0", ".", "0", ".", "0", ".", "0", " ">>)
                   \/ HasPrefix(line, <<"1", "2", "7", ".", "0", ".", "0", ".", "1", " ">>)
                /\ Len(parts) >= 2
        THEN cleanDomain(parts[2])
        ELSE IF /\ \/ HasPrefix(line, <<":", ":">>)
                   \/ HasPrefix(line, <<":", ":", "1">>)
                /\ Len(parts) >= 2
        THEN cleanDomain(parts[2])
        ELSE IF /\ Contains(line, " ")
                /\ Len(parts) >= 2
                /\ Count(parts[1], ".") = 3 \/ Contains(parts[1], ":")
        THEN cleanDomain(parts[2])
        ELSE IF /\ HasPrefix(line, HttpPrefix) \/ HasPrefix(line, HttpsPrefix)
                /\ urlParse(line).ok
                /\ urlParse(line).Host # <<>>
        THEN cleanDomain(CutAt(urlParse(line).Host, ":"))
        ELSE cleanDomain(line)

\* Mutant of LengthOK: no upper limit.
LengthOKNoMax(domain) == Len(domain) >= minDomainLength

\* len(domain) < minDomainLength || len(domain) > maxDomainLength, negated
LengthOK(domain) ==
    Len(domain) >= minDomainLength /\ Len(domain) <= maxDomainLength

\* The body of the loop over the labels in IsValidDomain.
LabelOK(label) ==
    /\ Len(label) # 0 /\ Len(label) <= maxLabelLength
    /\ ~HasPrefix(label, <<"-">>) /\ ~HasSuffix(label, <<"-">>)
    /\ \A i \in 1..Len(label) : label[i] \in Letters \cup Digits \cup {"-"}

\* domainRegex.MatchString: one or more groups of a letter or digit, up to
\* 61 letters, digits or hyphens and a letter or digit, each with its dot,
\* then two or more letters.
domainRegexMatch(domain) ==
    LET labels == Split(domain, ".")
        n == Len(labels)
    IN  /\ n >= 2
        /\ \A k \in 1..(n - 1) :
              LET l == labels[k]
              IN  /\ Len(l) >= 1 /\ Len(l) <= 63
                  /\ l[1] \in Letters \cup Digits
                  /\ l[Len(l)] \in Letters \cup Digits
                  /\ \A i \in 1..Len(l) : l[i] \in Letters \cup Digits \cup {"-"}
        /\ Len(labels[n]) >= 2
        /\ \A i \in 1..Len(labels[n]) : labels[n][i] \in Letters

\* IsValidDomain
IsValidDomain(domain) ==
    LET labels == Split(domain, ".")
    IN  IF domain = <<>> THEN FALSE
        ELSE IF ~LengthOK(domain) THEN FALSE
        ELSE IF ~Contains(domain, ".") THEN FALSE
        ELSE IF Contains(domain, " ") \/ Contains(domain, "\t") THEN FALSE
        ELSE IF \/ HasPrefix(domain, <<"-">>) \/ HasSuffix(domain, <<"-">>)
                \/ HasPrefix(domain, <<".">>) \/ HasSuffix(domain, <<".">>)
        THEN FALSE
        ELSE IF Len(labels) < 2 THEN FALSE
        ELSE IF \E k \in 1..Len(labels) : ~LabelOK(labels[k]) THEN FALSE
        ELSE IF Len(labels[Len(labels)]) < 2 THEN FALSE
        ELSE domainRegexMatch(domain)

\* Mutant of Gate: the result of ParseDomain is inserted unchecked.
GateParseOnly(domain) == domain # <<>>

\* if domain != "" && IsValidDomain(domain) { domainMap[domain] = true }
Gate(domain) == domain # <<>> /\ IsValidDomain(domain)

\* line == "" || strings.HasPrefix(line, "#") || strings.HasPrefix(line, "!")
\* || strings.HasPrefix(line, ";")
Skipped(line) ==
    \/ line = <<>>
    \/ HasPrefix(line, <<"#">>)
    \/ HasPrefix(line, <<"!">>)
    \/ HasPrefix(line, <<";">>)

\* n times the character c
Repeat(c, n) == [i \in 1..n |-> c]

ExampleCom == <<"e", "x", "a", "m", "p", "l", "e", ".", "c", "o", "m">>

PathPart == <<"/", "p", "a", "t", "h">>

\* The strings lists name as domains: well-formed ones (lower and mixed
\* case, with a subdomain, with a leading "www.", at the limits of the label
\* and the domain length) and ill-formed ones (hyphens at the ends of a
\* label, no dot, too short, a short or non-alphabetic last label, a
\* character outside the alphabet, an empty label, a label or a domain over
\* the limit).
DomainNames ==
    { ExampleCom,
      <<"E", "x", "a", "m", "p", "l", "e", ".", "c", "o", "m">>,
      <<"a", "d", "s", ".", "e", "x", "a", "m", "p", "l", "e", ".", "c", "o", "m">>,
      <<"w", "w", "w", ".", "e", "x", "a", "m", "p", "l", "e", ".", "c", "o", "m">>,
      <<"W", "W", "W", ".", "E", "x", "a", "m", "p", "l", "e", ".", "c", "o", "m">>,
      <<"w", "w", "w", ".", "c", "o", "m">>,
      <<"a", "-", "b", ".", "c", "o">>,
      Repeat("a", 63) \o <<".", "c", "o", "m">>,
      Repeat("a", 61) \o <<".">> \o Repeat("b", 61) \o <<".">>
          \o Repeat("c", 61) \o <<".">> \o Repeat("d", 63) \o <<".", "c", "o", "m">>,
      <<"-", "b", "a", "d", ".", "c", "o", "m">>,
      <<"b", "a", "d", "-", ".", "c", "o", "m">>,
      <<"a">>,
      <<"a", "b">>,
      <<"a", ".", "b">>,
      <<"e", "x", "a", "m", "p", "l", "e", ".", "c", "0", "m">>,
      <<"e", "x", "_", "a", "m", "p", "l", "e", ".", "c", "o", "m">>,
      <<"1", ".", "2", ".", "3", ".", "4">>,
      <<"a", ".", ".", "c", "o", "m">>,
      Repeat("a", 64) \o <<".", "c", "o", "m">>,
      Repeat("a", 300) \o <<".", "c", "o", "m">>,
      Repeat("a", 62) \o <<".">> \o Repeat("b", 61) \o <<".">>
          \o Repeat("c", 61) \o <<".">> \o Repeat("d", 63) \o <<".", "c", "o", "m">> }

\* The shapes blocklists write a domain in.
Forms ==
    {"bare", "padded", "trailing dot", "url", "url upper", "url port",
     "hosts 0.0.0.0", "hosts 127.0.0.1", "hosts tab", "hosts ipv6",
     "ip first", "adblock", "adblock option", "adblock exception", "wildcard",
     "comment", "comment line"}

\* strings.ToUpper, on ASCII
ToUpper(s) ==
    [i \in 1..Len(s) |->
        IF \E k \in DOMAIN LowerLetters : LowerLetters[k] = s[i]
        THEN UpperLetters[CHOOSE k \in DOMAIN LowerLetters : LowerLetters[k] = s[i]]
        ELSE s[i]]

\* The line that names the domain d in the given shape.
Format(form, d) ==
    CASE form = "bare" -> d
      [] form = "padded" -> <<" ", "\t">> \o d \o <<" ">>
      [] form = "trailing dot" -> d \o <<".">>
      [] form = "url" -> HttpsPrefix \o d \o PathPart
      [] form = "url upper" -> HttpsPrefix \o ToUpper(d) \o PathPart
      [] form = "url port" -> HttpPrefix \o d \o <<":", "8", "0", "8", "0", "/", "x", "?", "y", "=", "1">>
      [] form = "hosts 0.0.0.0" -> <<"0", ".", "0", ".", "0", ".", "0", " ">> \o d
      [] form = "hosts 127.0.0.1" -> <<"1", "2", "7", ".", "0", ".", "0", ".", "1", " ">> \o d
      [] form = "hosts tab" -> <<"0", ".", "0", ".", "0", ".", "0">> \o <<"\t">> \o d
      [] form = "hosts ipv6" -> <<":", ":", "1", " ">> \o d
      [] form = "ip first" -> <<"1", "0", ".", "0", ".", "0", ".", "1", " ", " ">> \o d \o <<" ", "x">>
      [] form = "adblock" -> <<"|", "|">> \o d \o <<"^">>
      [] form = "adblock option" -> <<"|", "|">> \o d \o <<"^", "$", "t", "h", "i", "r", "d", "-", "p", "a", "r", "t", "y">>
      [] form = "adblock exception" -> <<"@", "@", "|", "|">> \o d \o <<"^">>
      [] form = "wildcard" -> <<"*", ".">> \o d
      [] form = "comment" -> d \o <<" ", "#", " ", "a", "d", "s">>
      [] form = "comment line" -> <<"!", " ">> \o d

\* The inputs: a line, with the domain name and the shape it was made of.
Inputs ==
    { [form |-> f, d |-> d, line |-> Format(f, d)] : f \in Forms, d \in DomainNames }

NoInput == [form |-> "none", d |-> <<>>, line |-> <<>>]

\* The response bodies: one line, or one line and a second one that names
\* example.com again, is a comment or is ill-formed.
Bodies ==
    { <<i.line>> : i \in Inputs }
      \cup { <<i.line, l>> : i \in Inputs,
               l \in { ExampleCom, <<"E", "X", "A", "M", "P", "L", "E", ".", "C", "O", "M", ".">>, <<"#", " ", "e", "x", "a", "m", "p", "l", "e", ".", "o", "r", "g">>, <<"-", "b", "a", "d", ".", "c", "o", "m">> } }

InitParse ==
    /\ FetchIdle
    /\ driver = "logs" /\ fetchWorkers = 1 /\ tracker = FALSE /\ urls = <<>>
    /\ PipelineIdle
    /\ ValidatorIdle
    /\ srcFile = NoFile /\ startPc = "ready" /\ probed = FALSE
    /\ allURLs = <<>> /\ loadErr = "none"
    /\ health = [u \in URLs |-> NoStats]
    /\ filteredURLs = <<>> /\ filterCalls = 0
    /\ lineNum = 0
    /\ domainMap = {}
    /\ parseRet = NoParse
    /\ validRet = NoVerdict
    /\ AttemptIdle
    /\ LateIdle
    /\ \/ body \in Bodies /\ arg = NoInput
       \/ body = <<>> /\ arg \in Inputs

\* One turn of the scan loop of fetchAttempt.
ScanLine ==
    /\ lineNum < Len(body)
    /\ lineNum' = lineNum + 1
    /\ LET line == TrimSpace(body[lineNum + 1])
           domain == ParseDomain(line)
       IN  domainMap' = IF ~Skipped(line) /\ Gate(domain)
                        THEN domainMap \cup {domain}
                        ELSE domainMap
    /\ UNCHANGED <<body, arg, parseRet, validRet, attemptVars>>
    /\ UNCHANGED <<driver, fetchWorkers, tracker, urls, runCtxDone, queuedAtCancel,
                   startupVars, modeVars, lateVars, mainPc, stage, failure, fetchPhaseVars,
                   validationVars, outputVars, fetchVars, validatorVars>>

\* A call ParseDomain(line)
CallParseDomain ==
    /\ arg # NoInput
    /\ ~parseRet.called
    /\ parseRet' = [called |-> TRUE, ret |-> ParseDomain(arg.line)]
    /\ UNCHANGED <<body, lineNum, domainMap, arg, validRet, attemptVars>>
    /\ UNCHANGED <<driver, fetchWorkers, tracker, urls, runCtxDone, queuedAtCancel,
                   startupVars, modeVars, lateVars, mainPc, stage, failure, fetchPhaseVars,
                   validationVars, outputVars, fetchVars, validatorVars>>

\* A call IsValidDomain(domain)
CallIsValidDomain ==
    /\ arg # NoInput
    /\ ~validRet.called
    /\ validRet' = [called |-> TRUE, ret |-> IsValidDomain(arg.d)]
    /\ UNCHANGED <<body, lineNum, domainMap, arg, parseRet, attemptVars>>
    /\ UNCHANGED <<driver, fetchWorkers, tracker, urls, runCtxDone, queuedAtCancel,
                   startupVars, modeVars, lateVars, mainPc, stage, failure, fetchPhaseVars,
                   validationVars, outputVars, fetchVars, validatorVars>>

NextParse ==
    \/ ScanLine
    \/ CallParseDomain
    \/ CallIsValidDomain

SpecParse == InitParse /\ [][NextParse]_vars

----------------------------------------------------------------------------
\* One fetchAttempt step by step: the request, the status, the scan loop
\* with its cancellation check, the end of the body.

\* lineNum%1000 == 0: the lines between two looks at ctx.Done()
CtxCheckEvery == 1000

\* http.StatusOK
StatusOK == 200

\* The status codes servers answer with here.
Statuses == {StatusOK, 204, 404, 503}

\* A body long enough for the cancellation check to be reached, its lines
\* naming two domains in turn.
LongBody ==
    [i \in 1..(CtxCheckEvery + 1) |->
        IF i % 2 = 1 THEN ExampleCom
        ELSE <<"0", ".", "0", ".", "0", ".", "0", " ", "a", "d", "s", ".">> \o ExampleCom]

\* The bodies of the responses: the short ones of two lines, and the long
\* one.
ResponseBodies == {b \in Bodies : Len(b) = 2 /\ b[2] = ExampleCom} \cup {LongBody}

\* Where reading a body can fail (a line over the buffer limit, a broken
\* connection): nowhere, at its first line, at its last line.
FailPoints(b) == {0, 1, Len(b)}

\* Mutant of FailedAttempt: the domains parsed so far are returned with the
\* error.
FailedAttemptKeeps(map, err) == [done |-> TRUE, ok |-> FALSE, doms |-> map, err |-> err]

\* return nil, err
FailedAttempt(map, err) == [done |-> TRUE, ok |-> FALSE, doms |-> {}, err |-> err]

\* return domains, nil: the keys of domainMap
SucceededAttempt(map) == [done |-> TRUE, ok |-> TRUE, doms |-> map, err |-> "none"]

\* domainMap after one turn of the scan loop on the line raw.
AfterLine(map, raw) ==
    LET line == TrimSpace(raw)
    IN  IF ~Skipped(line) /\ Gate(ParseDomain(line)) THEN map \cup {ParseDomain(line)}
        ELSE map

InitAttempt ==
    /\ retryAttempts = NewFetcher(DriverRetryAttempts)
    /\ attempt = 1
    /\ fetchPc = "attempt"
    /\ ctxDone = FALSE
    /\ attemptLog = <<>>
    /\ fetchRet = NoRet
    /\ sleepTime = Zero64
    /\ driver = "logs" /\ fetchWorkers = 1 /\ tracker = FALSE /\ urls = <<>>
    /\ PipelineIdle
    /\ ValidatorIdle
    /\ srcFile = NoFile /\ startPc = "ready" /\ probed = FALSE
    /\ allURLs = <<>> /\ loadErr = "none"
    /\ health = [u \in URLs |-> NoStats]
    /\ filteredURLs = <<>> /\ filterCalls = 0
    /\ lineNum = 0
    /\ domainMap = {}
    /\ arg = NoInput
    /\ parseRet = NoParse
    /\ validRet = NoVerdict
    /\ body \in ResponseBodies
    /\ doErr \in BOOLEAN
    /\ respStatus \in Statuses
    /\ failAt \in FailPoints(body)
    /\ attemptPc = "do"
    /\ attemptRet = NoRet
    /\ LateIdle

\* resp, err := f.client.Do(req): a request under a cancelled context fails.
AttemptDo ==
    /\ attemptPc = "do"
    /\ IF doErr \/ ctxDone
       THEN /\ attemptPc' = "returned"
            /\ attemptRet' = FailedAttempt(domainMap, IF ctxDone THEN "ctx" ELSE "conn")
       ELSE /\ attemptPc' = "status"
            /\ UNCHANGED attemptRet
    /\ UNCHANGED <<body, lineNum, domainMap, arg, parseRet, validRet, doErr,
                   respStatus, failAt>>
    /\ UNCHANGED <<driver, fetchWorkers, tracker, urls, runCtxDone, queuedAtCancel,
                   startupVars, modeVars, lateVars, mainPc, stage, failure, fetchPhaseVars,
                   validationVars, outputVars, fetchVars, validatorVars>>

\* if resp.StatusCode != http.StatusOK { return nil, ... }
AttemptStatus ==
    /\ attemptPc = "status"
    /\ IF respStatus # StatusOK
       THEN /\ attemptPc' = "returned"
            /\ attemptRet' = FailedAttempt(domainMap, "other")
       ELSE /\ attemptPc' = "scan"
            /\ UNCHANGED attemptRet
    /\ UNCHANGED <<body, lineNum, domainMap, arg, parseRet, validRet, doErr,
                   respStatus, failAt>>
    /\ UNCHANGED <<driver, fetchWorkers, tracker, urls, runCtxDone, queuedAtCancel,
                   startupVars, modeVars, lateVars, mainPc, stage, failure, fetchPhaseVars,
                   validationVars, outputVars, fetchVars, validatorVars>>

\* for scanner.Scan() { lineNum++; the look at ctx.Done() every 1000 lines;
\* parse }: one turn, for a line that could be read.
AttemptScanLine ==
    /\ attemptPc = "scan"
    /\ lineNum < Len(body)
    /\ lineNum + 1 # failAt
    /\ lineNum' = lineNum + 1
    /\ IF (lineNum + 1) % CtxCheckEvery = 0 /\ ctxDone
       THEN /\ attemptPc' = "returned"
            /\ attemptRet' = FailedAttempt(domainMap, "ctx")
            /\ UNCHANGED domainMap
       ELSE /\ domainMap' = AfterLine(domainMap, body[lineNum + 1])
            /\ UNCHANGED <<attemptPc, attemptRet>>
    /\ UNCHANGED <<body, arg, parseRet, validRet, doErr, respStatus, failAt>>
    /\ UNCHANGED <<driver, fetchWorkers, tracker, urls, runCtxDone, queuedAtCancel,
                   startupVars, modeVars, lateVars, mainPc, stage, failure, fetchPhaseVars,
                   validationVars, outputVars, fetchVars, validatorVars>>

\* scanner.Scan() returns false: at the end of the body, at a line it cannot
\* read, or, the context being cancelled, when the transport fails the read;
\* if err := scanner.Err(); err != nil { return nil, ... }; return domains, nil
AttemptScanEnds ==
    /\ attemptPc = "scan"
    /\ \E readFails \in BOOLEAN :
          /\ readFails => ctxDone \/ lineNum + 1 = failAt
          /\ ~readFails => lineNum = Len(body)
          /\ attemptRet' = IF readFails THEN FailedAttempt(domainMap, "other")
                           ELSE SucceededAttempt(domainMap)
    /\ attemptPc' = "returned"
    /\ UNCHANGED <<body, lineNum, domainMap, arg, parseRet, validRet, doErr,
                   respStatus, failAt>>
    /\ UNCHANGED <<driver, fetchWorkers, tracker, urls, runCtxDone, queuedAtCancel,
                   startupVars, modeVars, lateVars, mainPc, stage, failure, fetchPhaseVars,
                   validationVars, outputVars, fetchVars, validatorVars>>

\* Fetch after fetchAttempt returned: if err == nil { return domains, nil };
\* the error goes to lastErr and the domains variable is dropped.
AttemptReturns ==
    /\ attemptPc = "returned"
    /\ fetchPc = "attempt"
    /\ attemptLog' = Append(attemptLog,
                            [afterCancel |-> FALSE,
                             res |-> IF attemptRet.ok THEN "ok" ELSE attemptRet.err,
                             doms |-> attemptRet.doms])
    /\ IF attemptRet.ok
       THEN /\ fetchPc' = "returned"
            /\ fetchRet' = [done |-> TRUE, ok |-> TRUE, doms |-> attemptRet.doms,
                            err |-> "none"]
       ELSE /\ fetchPc' = "loop"
            /\ UNCHANGED fetchRet
    /\ UNCHANGED <<retryAttempts, attempt, ctxDone, sleepTime>>
    /\ UNCHANGED <<pipeVars, validatorVars>>

NextAttempt ==
    \/ AttemptDo
    \/ AttemptStatus
    \/ AttemptScanLine
    \/ AttemptScanEnds
    \/ AttemptReturns
    \/ CancelContext

SpecAttempt == InitAttempt /\ [][NextAttempt]_vars

(***************************************************************************)
(* The lookup goroutines of one ValidateDNS or ValidateHTTP call           *)
(* (SpecLookups, SpecLookupsFair).                                         *)
(***************************************************************************)

\* The goroutines the call starts: A, AAAA and CNAME lookups in ValidateDNS,
\* the HTTPS and the HTTP request in ValidateHTTP.
Senders(op) == IF op = "dns" THEN 3 ELSE 2

\* Mutant of ResultsCap: the channel holds one result.
ResultsCapOne(op) == 1

\* results := make(chan lookupResult, 3) / make(chan httpResult, 2)
ResultsCap(op) == IF op = "dns" THEN 3 ELSE 2

\* Everything but the lookups stays as it is.
LookupFrame ==
    UNCHANGED <<driver, fetchWorkers, tracker, urls, runCtxDone, queuedAtCancel,
                startupVars, parseVars, modeVars, trackerVars, mainPc, stage,
                failure, fetchPhaseVars, validationVars, outputVars, fetchVars,
                validatorVars>>

InitLookups ==
    /\ FetchIdle
    /\ driver = "logs" /\ fetchWorkers = 1 /\ tracker = FALSE /\ urls = <<>>
    /\ PipelineIdle
    /\ ValidatorIdle
    /\ srcFile = NoFile /\ startPc = "ready" /\ probed = FALSE
    /\ allURLs = <<>> /\ loadErr = "none"
    /\ health = [u \in URLs |-> NoStats]
    /\ filteredURLs = <<>> /\ filterCalls = 0
    /\ body = <<>> /\ lineNum = 0 /\ domainMap = {} /\ arg = <<>>
    /\ parseRet = NoParse /\ validRet = NoVerdict
    /\ AttemptIdle
    /\ TrackerIdle
    /\ lkOp \in {"dns", "http"}
    /\ lkPc = [g \in LookupIds |-> "off"]
    /\ lkAns = [g \in LookupIds |-> FALSE]
    /\ lkSent = [g \in LookupIds |-> 0]
    /\ resultsChan = <<>>
    /\ lkCtxDone \in BOOLEAN
    /\ callerPc = "start"
    /\ callerI = 0
    /\ callerRet = NoCaller

\* The caller: the context with its timeout, the channel, the go statements.
StartLookups ==
    /\ callerPc = "start"
    /\ lkPc' = [g \in LookupIds |-> IF g <= Senders(lkOp) THEN "run" ELSE "off"]
    /\ callerPc' = "wait"
    /\ UNCHANGED <<lkOp, lkAns, lkSent, resultsChan, lkCtxDone, callerI, callerRet>>
    /\ LookupFrame

\* The context of the lookups ends while they run: the caller's ctx is
\* cancelled or the timeout of lookupCtx / httpCtx passes.
LookupCtxEnds ==
    /\ callerPc = "wait"
    /\ ~lkCtxDone
    /\ lkCtxDone' = TRUE
    /\ UNCHANGED <<lkOp, lkPc, lkAns, lkSent, resultsChan, callerPc, callerI, callerRet>>
    /\ LookupFrame

\* A goroutine: its lookup (LookupIP, LookupCNAME, NewRequestWithContext and
\* httpClient.Do) returns; under a context that is done it returns an error.
LookupReturns(g) ==
    /\ lkPc[g] = "run"
    /\ \E ans \in (IF lkCtxDone THEN {FALSE} ELSE BOOLEAN) :
          lkAns' = [lkAns EXCEPT ![g] = ans]
    /\ lkPc' = [lkPc EXCEPT ![g] = "send"]
    /\ UNCHANGED <<lkOp, lkSent, resultsChan, lkCtxDone, callerPc, callerI, callerRet>>
    /\ LookupFrame

\* A goroutine: results <- lookupResult{...}, its last statement.
LookupSend(g) ==
    /\ lkPc[g] = "send"
    /\ Len(resultsChan) < ResultsCap(lkOp)
    /\ resultsChan' = Append(resultsChan, lkAns[g])
    /\ lkSent' = [lkSent EXCEPT ![g] = @ + 1]
    /\ lkPc' = [lkPc EXCEPT ![g] = "done"]
    /\ UNCHANGED <<lkOp, lkAns, lkCtxDone, callerPc, callerI, callerRet>>
    /\ LookupFrame

\* The caller: for i := 0; i < n; i++ { result := <-results; if result.valid
\* { break / return true } }, and with the return the deferred cancel().
CallerReceives ==
    /\ callerPc = "wait"
    /\ callerI < Senders(lkOp)
    /\ resultsChan # <<>>
    /\ resultsChan' = Tail(resultsChan)
    /\ IF Head(resultsChan)
       THEN /\ callerPc' = "returned"
            /\ callerRet' = [done |-> TRUE, valid |-> TRUE]
            /\ lkCtxDone' = TRUE
            /\ callerI' = callerI
       ELSE /\ callerI' = callerI + 1
            /\ UNCHANGED <<callerPc, callerRet, lkCtxDone>>
    /\ UNCHANGED <<lkOp, lkPc, lkAns, lkSent>>
    /\ LookupFrame

\* The caller: the loop ended without a valid result.
CallerGivesUp ==
    /\ callerPc = "wait"
    /\ callerI = Senders(lkOp)
    /\ callerPc' = "returned"
    /\ callerRet' = [done |-> TRUE, valid |-> FALSE]
    /\ lkCtxDone' = TRUE
    /\ UNCHANGED <<lkOp, lkPc, lkAns, lkSent, resultsChan, callerI>>
    /\ LookupFrame

NextLookups ==
    \/ StartLookups
    \/ LookupCtxEnds
    \/ \E g \in LookupIds : LookupReturns(g)
    \/ \E g \in LookupIds : LookupSend(g)
    \/ CallerReceives
    \/ CallerGivesUp

SpecLookups == InitLookups /\ [][NextLookups]_vars

\* The Go scheduler runs every goroutine that can run, and a lookup ends with
\* its context at the latest.
SpecLookupsFair ==
    /\ SpecLookups
    /\ \A g \in LookupIds : WF_vars(LookupReturns(g)) /\ WF_vars(LookupSend(g))
    /\ WF_vars(StartLookups \/ CallerReceives \/ CallerGivesUp)

(***************************************************************************)
(* Health tracker (internal/stats): RecordSuccess, RecordFailure and       *)
(* ResetURL called in any order (SpecTracker).                             *)
(***************************************************************************)

\* largest FailureCount that is explored
MaxRecorded == 5

\* stat, ok := t.Stats[url]; if !ok { stat = &URLStats{URL: url} }
StatOf(stats, url) ==
    IF stats[url].known THEN stats[url]
    ELSE [known |-> TRUE, Blacklisted |-> FALSE, FailureCount |-> 0]

\* Mutant of RecordSuccess: every success sets the failure count to zero.
RecordSuccessForgets(stats, url) ==
    [stats EXCEPT ![url] = [StatOf(stats, url) EXCEPT !.Blacklisted = FALSE,
                                                      !.FailureCount = 0]]

\* Tracker.RecordSuccess, under t.mu.Lock(): the blacklisting and the failure
\* count are reset if the URL was blacklisted, and only then.
RecordSuccess(stats, url) ==
    LET stat == StatOf(stats, url)
    IN  [stats EXCEPT ![url] =
            IF stat.Blacklisted
            THEN [stat EXCEPT !.Blacklisted = FALSE, !.FailureCount = 0]
            ELSE stat]

\* Mutant of RecordFailure: the limit has to be exceeded.
RecordFailureLate(stats, url) ==
    LET stat == StatOf(stats, url)
        n == stat.FailureCount + 1
    IN  [stats EXCEPT ![url] =
            [stat EXCEPT !.FailureCount = n,
                         !.Blacklisted = (stat.Blacklisted \/ n > MaxFailures)]]

\* Tracker.RecordFailure, under t.mu.Lock(): stat.FailureCount++, and
\* if stat.FailureCount >= MaxFailures && !stat.Blacklisted { Blacklisted = true }
RecordFailure(stats, url) ==
    LET stat == StatOf(stats, url)
        n == stat.FailureCount + 1
    IN  [stats EXCEPT ![url] =
            [stat EXCEPT !.FailureCount = n,
                         !.Blacklisted = (stat.Blacklisted \/ n >= MaxFailures)]]

\* Tracker.ResetURL, under t.mu.Lock(): a URL without a record stays without.
ResetURL(stats, url) ==
    IF stats[url].known
    THEN [stats EXCEPT ![url] = [@ EXCEPT !.Blacklisted = FALSE, !.FailureCount = 0]]
    ELSE stats

\* The history of a URL after a call: the failures since its count was last
\* set to zero, and whether a success came in between.
Since(old, since, op) ==
    IF op = "reset" \/ (op = "success" /\ old.Blacklisted)
    THEN NoneSince
    ELSE IF op = "failure" THEN [since EXCEPT !.fails = @ + 1]
    ELSE IF op = "success" THEN [since EXCEPT !.succeeded = TRUE]
    ELSE since

\* Everything but the tracker's records and their history stays as it is.
TrackerFrame ==
    UNCHANGED <<driver, fetchWorkers, tracker, urls, runCtxDone, queuedAtCancel,
                srcFile, startPc, probed, allURLs, loadErr, filteredURLs,
                filterCalls, parseVars, modeVars, lookupVars, statsFile, runPc,
                pending, runLog, mainPc, stage, failure, fetchPhaseVars,
                validationVars, outputVars, fetchVars, validatorVars>>

\* NewTracker on a data directory without stats.json.
InitTracker ==
    /\ FetchIdle
    /\ driver = "logs" /\ fetchWorkers = 1 /\ tracker = TRUE /\ urls = <<>>
    /\ PipelineIdle
    /\ ValidatorIdle
    /\ srcFile = NoFile /\ startPc = "ready" /\ probed = FALSE
    /\ allURLs = <<>> /\ loadErr = "none"
    /\ health = [u \in URLs |-> NoStats]
    /\ filteredURLs = <<>> /\ filterCalls = 0
    /\ body = <<>> /\ lineNum = 0 /\ domainMap = {} /\ arg = <<>>
    /\ parseRet = NoParse /\ validRet = NoVerdict
    /\ AttemptIdle
    /\ LateIdle

\* A call of the tracker; the mutex makes the calls of concurrent goroutines
\* take place one after the other, in any order.
TrackerCall(op, url, stats) ==
    /\ health' = stats
    /\ sinceReset' = [sinceReset EXCEPT ![url] =
                         Since(StatOf(health, url), @, op)]
    /\ lastCall' = [op |-> op, url |-> url, was |-> health[url]]
    /\ TrackerFrame

CallRecordSuccess(url) == TrackerCall("success", url, RecordSuccess(health, url))

CallRecordFailure(url) ==
    /\ health[url].FailureCount < MaxRecorded
    /\ TrackerCall("failure", url, RecordFailure(health, url))

CallResetURL(url) == TrackerCall("reset", url, ResetURL(health, url))

NextTracker ==
    \/ \E u \in URLs : CallRecordSuccess(u)
    \/ \E u \in URLs : CallRecordFailure(u)
    \/ \E u \in URLs : CallResetURL(u)

SpecTracker == InitTracker /\ [][NextTracker]_vars

----------------------------------------------------------------------------
\* Runs of the driver one after the other over the same stats.json (SpecRuns)

\* largest number of runs that is explored
MaxRuns == 2

\* What stats.json holds for a URL before the first run: nothing, or the
\* record of a URL that failed in two runs.
StoredRecords ==
    { NoStats,
      [known |-> TRUE, Blacklisted |-> FALSE, FailureCount |-> MaxFailures - 1] }

\* What the handling of one URL can come to in each driver, as far as the
\* run is concerned: the domains only as found or not.
RunOutcomes ==
    [drv \in {"logs", "tui"} |->
        { [ok |-> o.ok, found |-> o.ok /\ o.doms # {}, path |-> o.path,
           calls |-> o.calls, attempts |-> o.attempts] :
          o \in FetchURLOutcomes(drv) }]

\* Everything but the run over the tracker stays as it is.
RunFrame ==
    UNCHANGED <<driver, fetchWorkers, tracker, runCtxDone, queuedAtCancel,
                srcFile, startPc, probed, allURLs, loadErr, filterCalls,
                parseVars, modeVars, lookupVars, sinceReset, lastCall, mainPc,
                stage, failure, fetchPhaseVars, validationVars, outputVars,
                fetchVars, validatorVars>>

InitRuns ==
    /\ FetchIdle
    /\ driver \in {"logs", "tui"}
    /\ fetchWorkers = 1
    /\ tracker \in BOOLEAN
    /\ urls = <<>>
    /\ PipelineIdle
    /\ ValidatorIdle
    /\ srcFile = NoFile /\ startPc = "loaded" /\ probed = FALSE
    /\ allURLs \in LoadedLists
    /\ loadErr = "none"
    /\ health = [u \in URLs |-> NoStats]
    /\ filteredURLs = <<>> /\ filterCalls = 0
    /\ body = <<>> /\ lineNum = 0 /\ domainMap = {} /\ arg = <<>>
    /\ parseRet = NoParse /\ validRet = NoVerdict
    /\ AttemptIdle
    /\ LookupIdle
    /\ sinceReset = [u \in URLs |-> NoneSince]
    /\ lastCall = NoTrackerCall
    /\ statsFile \in (IF tracker THEN [URLs -> StoredRecords]
                      ELSE {[u \in URLs |-> NoStats]})
    /\ runPc = "start"
    /\ pending = {}
    /\ runLog = NoRunLog

\* The start of a run: stats.NewTracker loads stats.json, FilterURLs keeps the
\* active URLs; if len(urls) == 0 { log.Fatalf("No active URLs to process") }
RunStart ==
    /\ runPc = "start"
    /\ LET r == IF tracker THEN FilterURLs(statsFile, allURLs)
                ELSE [active |-> allURLs, filtered |-> <<>>]
       IN  /\ health' = statsFile
           /\ urls' = r.active
           /\ filteredURLs' = r.filtered
           /\ pending' = Queued(r.active)
           /\ runPc' = IF Len(r.active) = 0 THEN "exited" ELSE "fetch"
    /\ runLog' = [NoRunLog EXCEPT !.runs = runLog.runs + 1,
                                  !.black = runLog.black]
    /\ UNCHANGED statsFile
    /\ RunFrame

\* The URL at the head of urlChan: the active URLs are queued in their order.
NextPending(list, left) ==
    list[CHOOSE i \in DOMAIN list :
            /\ list[i] \in left
            /\ \A j \in 1..(i - 1) : list[j] \notin left]

\* The fetch worker (one, here) handles the next URL of urlChan: Fetch, in
\* runWithLogs the probe and the second Fetch after a connection error, then
\* the notification of the tracker.
RunFetch(u) ==
    /\ runPc = "fetch"
    /\ pending # {}
    /\ u = NextPending(urls, pending)
    /\ \E o \in RunOutcomes[driver] :
          LET n == IF o.ok THEN Bump(0, NotifiesSuccess(tracker))
                   ELSE FailureNotifications(o.path, tracker)
              stats == IF n = 0 THEN health
                       ELSE IF o.ok THEN RecordSuccess(health, u)
                       ELSE RecordFailure(health, u)
          IN  /\ health' = stats
              /\ runLog' = [runLog EXCEPT !.found = (@ \/ o.found),
                               !.url = u,
                               !.calls = o.calls,
                               !.gets = o.attempts,
                               !.black = IF stats[u].Blacklisted
                                         THEN @ \cup {u} ELSE @]
    /\ pending' = pending \ {u}
    /\ UNCHANGED <<urls, filteredURLs, statsFile, runPc>>
    /\ RunFrame

\* The rest of the run: the no-domains check of runWithLogs, validation,
\* writeOutput, whose failure is fatal, and then tracker.Save().
RunEnd ==
    /\ runPc = "fetch"
    /\ pending = {}
    /\ runPc' = "exited"
    /\ LET log == [runLog EXCEPT !.url = 0, !.calls = 0, !.gets = 0]
       IN  IF FatalOnNoDomains(driver) /\ ~runLog.found
           THEN runLog' = log /\ UNCHANGED statsFile
           ELSE \E createErr \in BOOLEAN, flushErr \in BOOLEAN :
                  /\ createErr => ~flushErr
                  /\ IF WriteFailed(createErr, flushErr) \/ ~tracker
                     THEN runLog' = log /\ UNCHANGED statsFile
                     ELSE /\ statsFile' = health
                          /\ runLog' = [log EXCEPT !.saved = TRUE]
    /\ UNCHANGED <<urls, filteredURLs, health, pending>>
    /\ RunFrame

\* The program is started again with the same source file and data directory.
RunAgain ==
    /\ runPc = "exited"
    /\ runLog.runs < MaxRuns
    /\ runPc' = "start"
    /\ UNCHANGED <<urls, filteredURLs, health, pending, statsFile, runLog>>
    /\ RunFrame

NextRuns ==
    \/ RunStart
    \/ \E u \in URLs : RunFetch(u)
    \/ RunEnd
    \/ RunAgain

SpecRuns == InitRuns /\ [][NextRuns]_vars

(***************************************************************************)
(* Properties                                                              *)
(***************************************************************************)
\* The fetch phase is over: main received collectorDone and collected the
\* errors.
FetchPhaseDone == mainPc \notin {"start", "waitFetch", "waitCollector"}

ActiveURLs == {urls[i] : i \in DOMAIN urls}

Succeeded == {u \in URLs : hist[u].res = "ok"}

Failed == {u \in URLs : hist[u].res = "err"}

RECURSIVE SumOver(_, _)
SumOver(f, set) ==
    IF set = {} THEN 0
    ELSE LET x == CHOOSE y \in set : TRUE IN f[x] + SumOver(f, set \ {x})

NoRepeat(q) == \A i, j \in DOMAIN q : i # j => q[i] # q[j]

Range(q) == {q[i] : i \in DOMAIN q}

\* C1: after the fetch phase the reported duplicate count is the number of
\* domains the collector received that were already in the global set: the
\* sum of the sizes of the sets the successful fetches returned, minus the
\* size of the global set (which, a set, holds each domain once).
DedupProperty ==
    FetchPhaseDone =>
        /\ duplicates = fetchedTotal - Cardinality(allDomains)
        /\ allDomains \subseteq Domains

\* C1 witness: two workers, both URLs fetched, and a domain served by both.
DedupWitness ==
    /\ FetchPhaseDone
    /\ fetchWorkers = 2
    /\ Succeeded = {1, 2}
    /\ duplicates >= 1
    /\ Cardinality(allDomains) = 2

\* C2: after the fetch phase the global set is exactly the union of the sets
\* the successful fetches returned, whatever the number of workers and the
\* interleaving.
GlobalSetIsUnion == FetchPhaseDone => allDomains = fetchedUnion

\* C2 witness: two workers, one URL failed, the other one served two domains.
GlobalSetWitness ==
    /\ FetchPhaseDone
    /\ fetchWorkers = 2
    /\ Failed # {}
    /\ Cardinality(fetchedUnion) = 2

\* The run handed validDomains to writeOutput.
ReachedWrite == mainPc = "write" \/ mainPc = "finish" \/ outFile.created

\* C3: the domains handed to writeOutput, and so the lines of the output
\* file, are domains of the global set, none twice; without validation they
\* are the whole global set; a write that succeeded wrote all of them, a
\* failed one a prefix.
OutputSubset ==
    ReachedWrite =>
        /\ Range(validDomains) \subseteq allDomains
        /\ NoRepeat(validDomains)
        /\ ~ValidationEnabled(enableDNS, enableHTTP)
              => Range(validDomains) = allDomains
        /\ outFile.created =>
              \E k \in 0..Len(validDomains) : outFile.lines = SubSeq(validDomains, 1, k)
        /\ mainPc = "finish" \/ stage = "Done" => outFile.lines = validDomains

\* C3 witness: a validated run that wrote one of two found domains.
OutputSubsetWitness ==
    /\ stage = "Done"
    /\ ValidationEnabled(enableDNS, enableHTTP)
    /\ workers = 2
    /\ Cardinality(allDomains) = 2
    /\ Len(outFile.lines) = 1

\* C4 (as claimed): in every driver a fetch phase that ends with an empty
\* global set ends the run as Failed: no validation, no output file, no
\* completion.
NoDomainsIsFatal ==
    FetchPhaseDone /\ allDomains = {} =>
        /\ stage \in {"Fetching", "Failed"}
        /\ ~outFile.created
        /\ ~completion

StageEdges ==
    { <<"Idle", "Fetching">>, <<"Fetching", "Validating">>,
      <<"Fetching", "SkipValidation">>, <<"Validating", "Writing">>,
      <<"SkipValidation", "Writing">>, <<"Writing", "Done">>,
      <<"Fetching", "Failed">>, <<"Writing", "Failed">> }

StageInv ==
    /\ stage \in {"Validating", "SkipValidation", "Writing", "Done"} =>
          /\ FetchersDone(wPc, fetchWorkers)
          /\ \A w \in FetchWorkerIds : wPc[w] \in {"off", "exit"}
          /\ collectorPc = "done"
          /\ domainChan = <<>> /\ domainChanClosed
    /\ stage \in {"Writing", "Done"} /\ ValidationEnabled(enableDNS, enableHTTP) =>
          /\ ValidatorsDone(vPc, workers)
          /\ \A w \in WorkerIds : vPc[w] \in {"off", "exit"}
          /\ validateChan = <<>> /\ vPending = {}
    /\ stage = "Done" \/ completion =>
          /\ failure = "none"
          /\ outFile.created /\ outFile.lines = validDomains

\* C5: the stages follow one another as Idle, Fetching, Validating or
\* SkipValidation, Writing, Done (or end in Failed); validation starts only
\* when every fetch worker has ended and the collector has drained
\* domainChan, the write only when every validation worker has ended, and
\* completion is reported only after a write without error.
PipelineOrder ==
    /\ []StageInv
    /\ [][stage' # stage => <<stage, stage'>> \in StageEdges]_vars

\* C5 witness: a validated run with two workers of each kind is Done.
PipelineOrderWitness ==
    /\ stage = "Done"
    /\ ValidationEnabled(enableDNS, enableHTTP)
    /\ fetchWorkers = 2
    /\ workers = 2
    /\ Len(validDomains) >= 1

\* C6: with a tracker, each URL of the active list gets one notification,
\* RecordSuccess or RecordFailure, once, and not before its fetch has ended
\* (as a success for RecordSuccess, as a failure for RecordFailure).
HealthNotifiedOnce ==
    /\ \A u \in URLs :
          /\ hist[u].recS + hist[u].recF <= 1
          /\ hist[u].recS = 1 => hist[u].res = "ok"
          /\ hist[u].recF = 1 => hist[u].res = "err"
          /\ ~tracker => hist[u].recS + hist[u].recF = 0
    /\ FetchPhaseDone /\ tracker =>
          \A u \in ActiveURLs : hist[u].recS + hist[u].recF = 1

\* C6 witness: runWithLogs with a tracker, a URL notified as failed and one
\* as fetched.
HealthNotifiedWitness ==
    /\ FetchPhaseDone
    /\ tracker
    /\ driver = "logs"
    /\ \E u \in URLs : hist[u].recF = 1
    /\ \E u \in URLs : hist[u].recS = 1

\* C7: each URL of the active list is taken from urlChan by one worker, once,
\* and fetched, whatever happened to the other URLs.
EveryURLFetchedOnce ==
    /\ \A u \in URLs : hist[u].dequeued <= 1
    /\ \A u \in URLs \ ActiveURLs : hist[u].dequeued = 0
    /\ FetchPhaseDone =>
          \A u \in ActiveURLs : hist[u].dequeued = 1 /\ hist[u].res # "none"

\* C7 witness: a single worker, the first URL failed, the second was fetched.
EveryURLFetchedWitness ==
    /\ FetchPhaseDone
    /\ fetchWorkers = 1
    /\ hist[1].res = "err"
    /\ hist[2].res = "ok"

\* C8 (as claimed): at the end of the fetch phase the number of fetched
\* URLs is the number of URLs whose fetch succeeded, the error list has one
\* entry per failed URL, and the two add up to the number of active URLs.
FetchCounts ==
    FetchPhaseDone =>
        /\ URLsFetched = Cardinality(Succeeded)
        /\ \A u \in URLs : Errors[u] = IF u \in Failed THEN 1 ELSE 0
        /\ URLsFetched + SumOver(Errors, URLs) = Len(urls)

AllFailed(log) == \A i \in DOMAIN log : log[i].res \in {"conn", "other", "ctx"}

AttemptsAfterCancel == {i \in DOMAIN attemptLog : attemptLog[i].afterCancel}

\* C10 (as claimed): once the context is cancelled no fetchAttempt begins,
\* and Fetch returns an error.
NoAttemptAfterCancel ==
    /\ AttemptsAfterCancel = {}
    /\ fetchRet.done /\ ctxDone => ~fetchRet.ok

\* C10 (amended): once the context is cancelled at most one fetchAttempt
\* begins, and it fails; Fetch returns an error, unless the attempt that was
\* under way when the context was cancelled succeeds.
OneAttemptAfterCancel ==
    /\ Cardinality(AttemptsAfterCancel) <= 1
    /\ \A i \in AttemptsAfterCancel : attemptLog[i].res \in {"running", "ctx"}
    /\ fetchRet.done /\ ctxDone /\ fetchRet.ok =>
          ~attemptLog[Len(attemptLog)].afterCancel

\* C10 witness: Fetch returned after an attempt begun under the cancelled
\* context, the second of the call.
OneAttemptAfterCancelWitness ==
    /\ fetchRet.done
    /\ Len(attemptLog) = 2
    /\ AttemptsAfterCancel = {2}

\* The least wait the schedule allows after failed attempt a:
\* min(2^(a-1) s, 30 s).
MinSleep(a) == IF a >= 6 THEN MaxSleep ELSE Mul64(FromNat(2^(a - 1)), Second)

\* C11: computing the wait never fails, and the wait after failed attempt
\* k < N is at least min(2^(k-1) s, 30 s) and at most 30 s.
BackoffWait ==
    /\ fetchPc # "panic"
    /\ fetchPc = "backoff" =>
          /\ ~Less64(sleepTime, MinSleep(attempt))
          /\ ~Less64(MaxSleep, sleepTime)

\* The cache holds an entry for the domain of c's call that is younger than
\* the TTL.
FreshEntry(c) ==
    /\ useCache
    /\ cache[call[c].domain].present
    /\ now - cache[call[c].domain].timestamp < cacheTTL

\* A call that was answered from the cache has issued no lookup.
HitIssuesNoLookup ==
    \A c \in CallerIds :
        call[c].hit => call[c].pc \in {"http", "done"} /\ call[c].dnsSeen = <<>>

\* C12: with the cache enabled, a ValidateDNS call goes on to the lookups if
\* and only if the cache holds no entry of its domain younger than the TTL;
\* otherwise it issues no lookup, selects no resolver and returns the cached
\* value.
CacheDecides ==
    /\ []HitIssuesNoLookup
    /\ [][\A c \in CallerIds :
            call[c].pc = "check" /\ call'[c].pc # "check" =>
                IF FreshEntry(c)
                THEN /\ call'[c].hit
                     /\ call'[c].pc # "resolve"
                     /\ call'[c].dnsValid = cache[call[c].domain].valid
                     /\ picks' = picks
                ELSE call'[c].pc = "resolve"]_vars

\* C12 witness: a call answered valid from an entry one minute short of the
\* TTL.
CacheWitness ==
    \E c \in CallerIds, d \in ValDomains :
        /\ call[c].hit /\ call[c].pc = "done" /\ call[c].result
        /\ callsLeft = 0
        /\ cache[d].present /\ cache[d].valid
        /\ now - cache[d].timestamp = cacheTTL - 1

\* C13: on a miss ValidateDNS finds the domain valid if and only if one of
\* the three lookups reported a positive result, in whatever order the
\* results arrived.
DNSAnyLookup ==
    \A c \in CallerIds :
        call[c].pc = "store" =>
            call[c].dnsValid = (\E i \in 1..3 : call[c].dnsSeen[i])

\* C13 witness: the positive result arrived last.
DNSAnyLookupWitness ==
    \E c \in CallerIds :
        /\ call[c].pc = "store"
        /\ call[c].dnsSeen = <<FALSE, FALSE, TRUE>>
        /\ call[c].dnsValid

\* C14: ValidateFull runs the HTTP validation only for a domain that DNS
\* found valid; for another one it issues no request and answers invalid;
\* otherwise its answer is the HTTP outcome.
FullNeedsDNS ==
    \A c \in CallerIds :
        call[c].op = "full" =>
            /\ call[c].pc = "http" => call[c].dnsValid
            /\ call[c].pc = "done" =>
                  IF call[c].dnsValid
                  THEN /\ call[c].httpSeen # <<>>
                       /\ call[c].result = (\E i \in 1..2 : call[c].httpSeen[i])
                  ELSE /\ call[c].httpSeen = <<>>
                       /\ ~call[c].result

\* C14 witness: ValidateFull returned invalid for a domain DNS did not
\* find, without a request.
FullNeedsDNSWitness ==
    \E c \in CallerIds :
        /\ call[c].op = "full" /\ call[c].pc = "done"
        /\ ~call[c].hit /\ ~call[c].dnsValid
        /\ call[c].httpSeen = <<>>

\* C15: ValidateHTTP answers valid if and only if one of the two HEAD
\* requests ended with a status below 500, whichever answered first.
HTTPAnyRequest ==
    \A c \in CallerIds :
        call[c].pc = "done" /\ call[c].httpSeen # <<>> =>
            call[c].result = (call[c].httpSeen[1] \/ call[c].httpSeen[2])

\* C15 witness: the request that answered first failed, the other did not.
HTTPAnyRequestWitness ==
    \E c \in CallerIds :
        /\ call[c].pc = "done"
        /\ call[c].httpSeen = <<FALSE, TRUE>>
        /\ call[c].result

\* C16: with two resolvers or more each selection is the one after the
\* last, modulo the number of resolvers.
RoundRobin ==
    resolvers >= 2 =>
        \A i \in 1..(Len(picks) - 1) : picks[i + 1] = (picks[i] + 1) % resolvers

\* C17: whatever the list the validator was made from, a call that comes to
\* select a resolver finds one, and no call fails in getResolver.
ResolverFallback ==
    \A c \in CallerIds :
        /\ call[c].pc = "resolve" => resolvers >= 1
        /\ call[c].pc # "panic"

\* The validation orchestrator has returned.
ValidationReturned ==
    ValidationEnabled(enableDNS, enableHTTP) /\ mainPc \in {"write", "finish", "exit"}

\* C18: when the validation orchestrator returns, every domain of the input
\* set was taken by a worker and counted once and every worker has merged:
\* the valid and invalid counts add up to the number of input domains and the
\* valid count is the length of the returned list.
ValidationDrained ==
    ValidationReturned =>
        /\ workers >= 1
        /\ vPending = {} /\ validateChan = <<>>
        /\ \A w \in 1..workers : vPc[w] = "exit" /\ localValid[w] = <<>>
        /\ validCount + invalidCount = Cardinality(allDomains)
        /\ validCount = Len(validDomains)
        /\ driver # "tui" =>
              /\ DomainsValid + DomainsInvalid = Cardinality(allDomains)
              /\ DomainsValid = Len(validDomains)

\* C18 witness: a run with two workers returned one of two domains as valid
\* and counted the other invalid.
ValidationDrainedWitness ==
    /\ ValidationReturned
    /\ workers = 2
    /\ Cardinality(allDomains) = 2
    /\ validCount = 1 /\ invalidCount = 1
    /\ Len(validDomains) = 1

\* C19: once the context is cancelled no worker starts a Fetch for a URL, or
\* a validator call for a domain, that was queued when it was cancelled.
StopsOnCancel ==
    [][runCtxDone =>
          /\ \A u \in queuedAtCancel.urls : hist'[u].dequeued = hist[u].dequeued
          /\ Len(validateChan') < Len(validateChan)
                => Head(validateChan) \notin queuedAtCancel.domains]_vars

\* The collector's next step writes the global set or the duplicate counter.
CollectorWrites == collectorPc = "run" /\ domainChan # <<>>

\* The main goroutine's next step reads the global set or the counter.
MainReads == mainPc \in {"fetched", "mode", "skip"}

\* C20: while the collector is about to write the global domain set or the
\* duplicate counter, no other goroutine is about to access them unless both
\* accesses are under mu; the main goroutine reads them after the collector
\* is done.
NoRacyAccess ==
    CollectorWrites =>
        /\ ~MainReads
        /\ \A w \in FetchWorkerIds :
              wPc[w] = "progress" => ProgressHoldsMu /\ CollectorHoldsMu(driver)

\* Caller c holds v.cacheMu, for reading or for writing.
Holds(c) == c \in cacheMu.readers \/ cacheMu.writer = c

\* C21: no call reads the cache while another writes it and no two write it
\* at once; a read is made under the read lock, a write under the exclusive
\* lock, which excludes every other holder; a call holds no lock while its
\* lookups are in flight nor once it has returned, whatever path it took.
CacheLockDiscipline ==
    /\ \A c, d \in CallerIds :
          c # d /\ call[c].pc = "write" => call[d].pc \notin {"read", "write"}
    /\ \A c \in CallerIds :
          /\ call[c].pc = "read" => c \in cacheMu.readers
          /\ call[c].pc = "write" =>
                cacheMu.writer = c /\ cacheMu.readers = {}
          /\ call[c].pc \in {"idle", "lookup", "lock", "done"} => ~Holds(c)

\* C21 witness: a call about to write the cache under the lock while the
\* other waits for the read lock on the same domain.
CacheLockWitness ==
    \E c, d \in CallerIds :
        /\ c # d
        /\ call[c].pc = "write" /\ call[d].pc = "rlock"
        /\ call[c].domain = call[d].domain
        /\ cacheMu.writer = c

\* C22: a run whose output file could not be created, or was written in
\* part only, ends Failed without completion and without saved statistics;
\* a run that reports completion or saves its statistics has written every
\* domain.
WriteErrorIsFatal ==
    /\ [](completion \/ statsSaved =>
            outFile.created /\ outFile.lines = validDomains)
    /\ [][mainPc = "write" /\ mainPc' # "write" /\ outFile'.lines # validDomains
            => mainPc' = "exit" /\ stage' = "Failed"]_vars
    /\ [](stage = "Failed" => [](stage = "Failed" /\ ~completion /\ ~statsSaved))

\* C22 witness: the flush failed after one of two domains was written.
WriteErrorWitness ==
    /\ stage = "Failed"
    /\ failure = "write output"
    /\ outFile.created
    /\ Len(validDomains) = 2
    /\ Len(outFile.lines) = 1

\* The line is white space only.
Blank(l) == \A i \in DOMAIN l : l[i] = " " \/ l[i] = "\t"

\* The line without the white space around it.
Core(l) ==
    LET ink == {i \in DOMAIN l : l[i] # " " /\ l[i] # "\t"}
        lo == CHOOSE i \in ink : \A j \in ink : i <= j
        hi == CHOOSE i \in ink : \A j \in ink : j <= i
    IN  [k \in 1..(hi - lo + 1) |-> l[lo + k - 1]]

StartsWith(l, p) == Len(l) >= Len(p) /\ \A i \in DOMAIN p : l[i] = p[i]

\* The line is neither empty nor a comment.
URLLine(l) == ~Blank(l) /\ Core(l)[1] # "#"

Malformed(l) ==
    /\ ~StartsWith(Core(l), <<"h", "t", "t", "p", ":", "/", "/">>)
    /\ ~StartsWith(Core(l), <<"h", "t", "t", "p", "s", ":", "/", "/">>)

\* The non-empty non-comment lines, trimmed, in file order.
URLLines(lines) ==
    LET kept == SelectSeq(lines, URLLine)
    IN  [k \in DOMAIN kept |-> Core(kept[k])]

Loaded == startPc \in {"loaded", "fatal"} /\ failure # "no internet connection"

LoadBeforeNetwork == probed => startPc = "loaded"

\* The URL's record is blacklisted or counts 3 failures or more.
Unhealthy(u) ==
    health[u].known /\ (health[u].Blacklisted \/ health[u].FailureCount >= 3)

Healthy(u) == ~Unhealthy(u)

\* C25: FilterURLs is called once, before any fetch starts; the filtered
\* list is the loaded URLs that are blacklisted or have 3 failures or more,
\* the active list is the others, both in the order of the loaded list; only
\* URLs of the active list, and none of the filtered one, are fetched.
FilterPartition ==
    /\ filterCalls <= 1
    /\ mainPc # "start" => startPc = "ready"
    /\ tracker /\ startPc # "loaded" =>
          /\ filterCalls = 1
          /\ urls = SelectSeq(allURLs, Healthy)
          /\ filteredURLs = SelectSeq(allURLs, Unhealthy)
    /\ \A u \in URLs :
          hist[u].dequeued > 0 =>
              /\ \E i \in DOMAIN urls : urls[i] = u
              /\ \A i \in DOMAIN filteredURLs : filteredURLs[i] # u

\* C25 witness: of two loaded URLs the first was filtered out for its three
\* failures and the second was fetched.
FilterWitness ==
    /\ tracker
    /\ allURLs = <<1, 2>>
    /\ ~health[1].Blacklisted /\ health[1].FailureCount = 3
    /\ filteredURLs = <<1>>
    /\ urls = <<2>>
    /\ hist[2].dequeued = 1
    /\ mainPc = "fetched"

\* The string has no upper-case letter.
IsLowerCase(s) ==
    \A i \in 1..Len(s) : \A k \in DOMAIN UpperLetters : s[i] # UpperLetters[k]

\* The string with its upper-case letters replaced by the lower-case ones.
Lowered(s) ==
    [i \in 1..Len(s) |->
        IF \E k \in 1..26 : UpperLetters[k] = s[i]
        THEN LowerLetters[CHOOSE k \in 1..26 : UpperLetters[k] = s[i]]
        ELSE s[i]]

\* The labels of a string: the pieces the dots divide it into.
Labels(s) ==
    LET dots == {0} \cup {i \in 1..Len(s) : s[i] = "."} \cup {Len(s) + 1}
    IN  { SubSeq(s, a + 1, b - 1) :
            <<a, b>> \in { p \in dots \X dots :
                            /\ p[1] < p[2]
                            /\ \A i \in dots : ~(p[1] < i /\ i < p[2]) } }

\* The last label of a string.
LastLabel(s) ==
    LET dots == {0} \cup {i \in 1..Len(s) : s[i] = "."}
        last == CHOOSE i \in dots : \A j \in dots : j <= i
    IN  SubSeq(s, last + 1, Len(s))

\* A domain as the format rules describe it: 3 to 253 characters, two labels
\* or more, each of 1 to 63 letters, digits and hyphens with no hyphen at
\* either end, the last one of two or more letters.
WellFormed(s) ==
    /\ Len(s) >= 3 /\ Len(s) <= 253
    /\ \E i \in 1..Len(s) : s[i] = "."
    /\ \A l \in Labels(s) :
          /\ Len(l) >= 1 /\ Len(l) <= 63
          /\ \A i \in 1..Len(l) : l[i] \in Letters \cup Digits \cup {"-"}
          /\ l[1] # "-" /\ l[Len(l)] # "-"
    /\ Len(LastLabel(s)) >= 2
    /\ \A i \in 1..Len(LastLabel(s)) : LastLabel(s)[i] \in Letters

\* C26: every string in the per-URL set passed both gates: it is the
\* non-empty result of ParseDomain on a line scanned, it is lower-case, and
\* IsValidDomain accepts it, so that it has the shape of a domain (3 to 253
\* characters, two labels or more of 1 to 63 letters, digits and inner
\* hyphens, a last label of two or more letters).
InsertedPassedBothGates ==
    \A s \in domainMap :
        /\ s # <<>>
        /\ \E i \in 1..lineNum : s = ParseDomain(TrimSpace(body[i]))
        /\ IsLowerCase(s)
        /\ IsValidDomain(s)
        /\ WellFormed(s)

\* C26 witness: of the two lines of a body the first, a URL in upper case,
\* put example.com into the set, and the second passed ParseDomain but not
\* IsValidDomain and was left out.
InsertedWitness ==
    /\ lineNum = 2
    /\ body = <<Format("url upper", ExampleCom), <<"-", "b", "a", "d", ".", "c", "o", "m">> >>
    /\ ParseDomain(body[2]) # <<>>
    /\ domainMap = {ExampleCom}

\* The shapes C27 lists.
SupportedForms ==
    {"url", "url upper", "hosts 0.0.0.0", "hosts 127.0.0.1", "adblock",
     "trailing dot", "bare"}

\* C27 as stated: for a valid domain d, ParseDomain maps the URL form, the
\* hosts-file forms, the AdBlock rule, the trailing-dot form and the bare
\* form of d to d in lower case.
FormsYieldDomain ==
    parseRet.called /\ arg.form \in SupportedForms /\ IsValidDomain(arg.d) =>
        parseRet.ret = Lowered(arg.d)

\* What the listed forms of d are mapped to: d in lower case, without a
\* leading "www.", and nothing when no dot is left.
NormalForm(d) ==
    LET l == Lowered(d)
        n == IF StartsWith(l, <<"w", "w", "w", ".">>) THEN SubSeq(l, 5, Len(l))
             ELSE l
    IN  IF \E i \in 1..Len(n) : n[i] = "." THEN n ELSE <<>>

\* C27 amended: for a valid domain d, ParseDomain maps the URL form, the
\* hosts-file forms, the AdBlock rule, the trailing-dot form and the bare
\* form of d to the same string: d in lower case with a leading "www."
\* removed (the empty string when what is left has no dot).
FormsYieldNormalForm ==
    parseRet.called /\ arg.form \in SupportedForms /\ IsValidDomain(arg.d) =>
        parseRet.ret = NormalForm(arg.d)

\* C27 witness: ParseDomain was called with the URL form, in upper case, of
\* the valid domain Example.com and returned example.com.
FormsWitness ==
    /\ parseRet.called
    /\ arg.form = "url upper"
    /\ arg.d = <<"E", "x", "a", "m", "p", "l", "e", ".", "c", "o", "m">>
    /\ IsValidDomain(arg.d)
    /\ parseRet.ret = ExampleCom

\* A string of the rejection set: a label begins or ends with a hyphen, there
\* is no dot, or a length is out of range (fewer than 3 or more than 253
\* characters, a label of more than 63).
InRejectionSet(s) ==
    \/ \E l \in Labels(s) : l # <<>> /\ (l[1] = "-" \/ l[Len(l)] = "-")
    \/ \A i \in 1..Len(s) : s[i] # "."
    \/ Len(s) < 3
    \/ Len(s) > 253
    \/ \E l \in Labels(s) : Len(l) > 63

\* C28: ParseDomain returns the empty string for every line that begins
\* with "@@||", and IsValidDomain returns false for every string with a
\* hyphen at an end of a label, without a dot, shorter than 3 characters,
\* longer than 253 characters or with a label longer than 63 characters.
RejectionSetRejected ==
    /\ parseRet.called /\ StartsWith(arg.line, <<"@", "@", "|", "|">>) =>
          parseRet.ret = <<>>
    /\ validRet.called /\ InRejectionSet(arg.d) => validRet.ret = FALSE

\* C28 witness: the exception rule for -bad.com was given to ParseDomain,
\* which returned the empty string, and -bad.com to IsValidDomain, which
\* returned false.
RejectionWitness ==
    /\ arg.form = "adblock exception"
    /\ arg.d = <<"-", "b", "a", "d", ".", "c", "o", "m">>
    /\ parseRet = [called |-> TRUE, ret |-> <<>>]
    /\ validRet = [called |-> TRUE, ret |-> FALSE]

\* The domains a worker has called the validator for.
Validated == {d \in Domains : validatedBy[d] # "nothing"}

\* C29: the two flags decide the validation mode.  Validation is bypassed,
\* and every domain found is handed to the output, exactly when enableDNS and
\* enableHTTP are both false; with enableHTTP every domain goes through
\* ValidateFull, whatever enableDNS is; with enableDNS alone every domain
\* goes through ValidateDNS and no HTTP request is issued.
ModeFromFlags ==
    /\ ~enableDNS /\ ~enableHTTP =>
          /\ Validated = {} /\ ~httpIssued
          /\ mainPc \notin {"feed", "waitValidate"}
          /\ mainPc \in {"write", "finish"} => Range(validDomains) = allDomains
    /\ enableDNS \/ enableHTTP =>
          /\ mainPc # "skip"
          /\ mainPc \in {"write", "finish"} => Validated = allDomains
    /\ enableHTTP => \A d \in Validated : validatedBy[d] = "full"
    /\ enableDNS /\ ~enableHTTP =>
          /\ \A d \in Validated : validatedBy[d] = "dns"
          /\ ~httpIssued

\* C29 witness: with enableHTTP alone the two domains found went through
\* ValidateFull, a HTTP request was made, and the run is at its end.
ModeWitness ==
    /\ enableHTTP /\ ~enableDNS
    /\ allDomains = Domains
    /\ \A d \in Domains : validatedBy[d] = "full"
    /\ httpIssued
    /\ mainPc = "finish"

\* C30: with the cache enabled, a ValidateDNS call that missed the cache
\* ends only through its store: when it returns, the entry of its domain is
\* the outcome it returns, valid or not, with the current time, whatever
\* entry was there before.
MissStoresOutcome ==
    [][\A c \in CallerIds :
          call[c].pc # "done" /\ call'[c].pc = "done" /\ useCache /\ ~call'[c].hit =>
              /\ call[c].pc = "unlock"
              /\ cache'[call'[c].domain] =
                    [present |-> TRUE, valid |-> call'[c].result, timestamp |-> now']]_vars

\* C30 witness: a call that missed has returned invalid and the entry of
\* its domain is that outcome with the current time, while the other caller
\* is in a call of its own.
MissStoresWitness ==
    /\ useCache
    /\ call["w1"].pc = "done" /\ ~call["w1"].hit /\ ~call["w1"].result
    /\ cache[call["w1"].domain] = [present |-> TRUE, valid |-> FALSE, timestamp |-> now]
    /\ call["w2"].pc = "lookup"

\* C31: a fetchAttempt that fails returns no domain: after a status other
\* than 200 (every status outside 2xx is one), a read of the body that fails
\* part-way, or a cancellation seen in the scan loop, the attempt returns an
\* error and nil, whatever domainMap holds, and Fetch hands nothing of it on.
FailedAttemptGivesNothing ==
    /\ attemptPc = "returned" =>
          /\ respStatus \notin 200..299 => ~attemptRet.ok
          /\ ~attemptRet.ok => attemptRet.doms = {}
          /\ attemptRet.ok =>
                /\ lineNum = Len(body) /\ failAt = 0 /\ respStatus = StatusOK
                /\ attemptRet.doms = domainMap
    /\ fetchRet.done => attemptRet.ok /\ fetchRet.doms = attemptRet.doms
    /\ \A i \in DOMAIN attemptLog : attemptLog[i].res # "ok" => attemptLog[i].doms = {}

\* C31 witness: the scan loop saw the cancellation at line 1000, with two
\* domains in domainMap, and the attempt returned the context's error and no
\* domain.
FailedAttemptWitness ==
    /\ attemptPc = "returned"
    /\ lineNum = CtxCheckEvery
    /\ Cardinality(domainMap) = 2
    /\ attemptRet = [done |-> TRUE, ok |-> FALSE, doms |-> {}, err |-> "ctx"]
    /\ fetchPc = "loop"


\* C32: with any fetch-worker count and any validation-worker count from zero
\* up, the pipeline never deadlocks: as long as the run has not ended, some
\* goroutine of it can take a step (no send or receive on the URL, domain,
\* error or validation channel waits forever).
PipelineNeverBlocks == mainPc # "exit" => ENABLED NextCounts

\* C33: no lookup goroutine of ValidateDNS (3 goroutines) or ValidateHTTP (2)
\* blocks: each sends one result and no more, a goroutine that is at its
\* send can always send, also after the caller returned or the context
\* ended, and in the end every goroutine that was started has ended.
LookupsNeverBlock ==
    /\ [](\A g \in LookupIds :
            /\ lkSent[g] <= 1
            /\ lkPc[g] = "done" => lkSent[g] = 1
            /\ lkPc[g] = "send" => ENABLED LookupSend(g))
    /\ <>[](\A g \in LookupIds : lkPc[g] \in {"off", "done"})

\* ValidateDNS returned on the first result, a positive one, and the two
\* other goroutines sent theirs afterwards.
LookupsWitness ==
    /\ lkOp = "dns"
    /\ callerPc = "returned" /\ callerRet.valid /\ callerI = 0
    /\ \A g \in LookupIds : lkPc[g] = "done"
    /\ Len(resultsChan) = 2

\* C36: from an empty tracker, after any sequence of RecordSuccess,
\* RecordFailure and ResetURL calls, a URL is flagged Blacklisted if and only
\* if its FailureCount is at least MaxFailures, and no FailureCount is
\* negative.
BlacklistedIffAtLimit ==
    \A u \in URLs :
        /\ health[u].Blacklisted <=> health[u].FailureCount >= MaxFailures
        /\ health[u].FailureCount >= 0

\* A URL that was blacklisted and reset is blacklisted again by its third
\* failure, a success having come in between; the other URL is past the
\* limit.
BlacklistedWitness ==
    /\ lastCall.op = "failure" /\ lastCall.url = 1
    /\ lastCall.was.FailureCount = MaxFailures - 1
    /\ health[1].Blacklisted /\ sinceReset[1].succeeded
    /\ health[2].Blacklisted /\ health[2].FailureCount > MaxFailures

\* C37: FailureCount is cumulative: RecordSuccess on a URL that is not
\* blacklisted leaves the count as it was, the count is the number of
\* failures recorded since it was last set to zero (by ResetURL or by the
\* success that recovers a blacklisted URL), and the URL is blacklisted
\* exactly when that number has reached MaxFailures, successes in between or
\* not.
FailureCountCumulative ==
    /\ lastCall.op = "success" /\ ~lastCall.was.Blacklisted =>
           health[lastCall.url].FailureCount = lastCall.was.FailureCount
    /\ \A u \in URLs :
           /\ health[u].FailureCount = sinceReset[u].fails
           /\ health[u].Blacklisted <=> sinceReset[u].fails >= MaxFailures

\* A success on a URL with two failures left the count at two.
CumulativeWitness ==
    /\ lastCall.op = "success" /\ lastCall.url = 1
    /\ ~lastCall.was.Blacklisted /\ lastCall.was.FailureCount = MaxFailures - 1
    /\ health[1].FailureCount = MaxFailures - 1
    /\ sinceReset[1] = [fails |-> MaxFailures - 1, succeeded |-> TRUE]

\* C34: in one run no URL receives more than N HTTP GET attempts, N being
\* the retry count of the Fetcher of the drivers: Fetch is called once for
\* each active URL.
GetsWithinRetryCount ==
    /\ runLog.gets <= NewFetcher(DriverRetryAttempts)
    /\ runLog.calls <= 1

\* C35: with the tracker in use, a run that issued a RecordSuccess or a
\* RecordFailure has called tracker.Save() when the process ends, the run
\* that fails with "no domains found" included.
RecordedRunSaves ==
    (/\ mainPc = "exit"
     /\ tracker
     /\ \E u \in URLs : hist[u].recS + hist[u].recF > 0) => statsSaved

\* C38: a URL that was blacklisted is not among the URLs a later run
\* fetches.
BlacklistedStaysOut == \A u \in runLog.black : u \notin pending

\* C39: a normalized domain is a fixed point of the normalization: when
\* ParseDomain returns a non-empty string d for a line, ParseDomain(d) = d.
NormalizedIsFixedPoint ==
    (parseRet.called /\ parseRet.ret # <<>>) => ParseDomain(parseRet.ret) = parseRet.ret

====
